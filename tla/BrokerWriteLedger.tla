-------------------------- MODULE BrokerWriteLedger --------------------------
(***************************************************************************)
(* The write path of ads-broker, the only process that changes anything on *)
(* Google or Meta: socket requests handled concurrently by one asyncio     *)
(* loop (a slot each), the authorization pipeline, and the SQLite ledger   *)
(* that outlives the process.                                              *)
(*                                                                         *)
(* A slot interleaves with the others wherever the handler awaits: the     *)
(* read of the remote state, the preparation of a creation, the call to    *)
(* the platform.  Everything between two awaits is one action, and every   *)
(* BEGIN IMMEDIATE ... COMMIT lies within one.  Crash drops the slots and  *)
(* keeps the tables.                                                       *)
(***************************************************************************)
EXTENDS HardCapCheck, FiniteSets, FiniteSetsExt

CONSTANTS
    Keys,            \* idempotency keys
    Accounts,        \* advertising accounts, the scope of every cap
    Slots,           \* requests the broker handles at the same time
    Requests,        \* what ads-api may send: a key, an intent, an authorization
    CapsOf,          \* account -> AccountCaps in force
    None,
    Resend,          \* may ads-api send one key again?
    TicksPerDay, DaysPerMonth,
    MaxClock,        \* bound: the clock stops here
    MaxUploads       \* bound: uploads of one key the platform takes

Ops == {"update", "campaign", "child", "upload"}

\* parent: the key of the package step that creates the parent entity.
Intents ==
    [op : Ops, account : Accounts, before : Int \union {Unreadable},
     after : Int \union {Unreadable}, package : BOOLEAN, parent : Keys \union {None}]

\* intent is what was signed: the diff hash an authorization carries.
Authorizations ==
    [id : Nat, kind : {"human_approval", "rule_authorization", "package_step"},
     intent : Intents, expires_at : Nat]

Rejections == {"DENIED", "BLOCKED_HARD_CAP", "SKIPPED_DRIFT"}
Recorded == {"SUCCEEDED", "FAILED", "UNKNOWN"}

ChangeRow == [account : Accounts, day : Nat, delta : Int]
ReceiptRow ==
    [intent : Intents, auth : Nat, day : Nat, delta : Nat,
     outcome : Recorded \union {"none"}, pending : BOOLEAN]

ASSUME LedgerAssumption ==
    /\ None \notin Keys \union ReceiptRow \union ChangeRow
    /\ Requests \subseteq [key : Keys, intent : Intents, auth : Authorizations]
    /\ CapsOf \in [Accounts -> AccountCaps]
    /\ Resend \in BOOLEAN
    /\ TicksPerDay \in Nat \ {0} /\ DaysPerMonth \in Nat \ {0} /\ MaxClock \in Nat
    /\ MaxUploads \in Nat

\* A package step index names one step of the signed plan, and a step either
\* uploads or writes: no key is used for both.
ASSUME UploadKeysAssumption ==
    \A p, q \in Requests :
        p.key = q.key => (p.intent.op = "upload" <=> q.intent.op = "upload")

\* The parent of a step is the campaign or an ad set (derive_step_plan); a
\* creative is named apart, by the steps that use it.
ASSUME ParentsAssumption ==
    \A p, q \in Requests : p.intent.parent = q.key => q.intent.op # "upload"

VARIABLES
    clock,           \* the broker's Clock, in ticks
    slots,           \* requests in flight: process memory
    receipts,        \* table write_receipts
    outcomes,        \* table idempotent_writes
    applied,         \* table applied_changes
    effects,         \* the platform: changes really made, by key
    calls,           \* the platform: mutations sent for each key
    uploads,         \* the platform: creatives uploaded for each key
    sent             \* keys ads-api has already sent

tables == <<receipts, outcomes, applied>>
platform == <<effects, calls, uploads>>
vars == <<clock, slots, tables, platform, sent>>

Day(t) == t \div TicksPerDay
Month(d) == d \div DaysPerMonth

\* A new campaign starts from nothing, whatever its intent says.
Before(i) == IF i.op = "campaign" THEN 0 ELSE i.before

\* The row a successful write leaves, and the change it stands for.
Change(i, now) ==
    [account |-> i.account, day |-> Day(now), delta |-> SignedDelta(Before(i), i.after)]

Waiting == {"reading", "preparing", "reserved", "called", "uploading", "uploaded"}
Idle == [pc |-> "idle"]
SlotState ==
    {Idle} \union [pc : Waiting \union {"answered"}, req : Requests, now : Nat,
                   out : Recorded \union Rejections \union {"none"}]

Init ==
    /\ clock = 0
    /\ slots = [s \in Slots |-> Idle]
    /\ receipts = [k \in Keys |-> None]
    /\ outcomes = [k \in Keys |-> "none"]
    /\ applied = [k \in Keys |-> None]
    /\ effects = [k \in Keys |-> None]
    /\ calls = [k \in Keys |-> 0]
    /\ uploads = [k \in Keys |-> 0]
    /\ sent = {}

-----------------------------------------------------------------------------
(* Reads of the ledger. *)

\* Mutant: a reservation whose request is still in flight, or died, is not seen.
GetOutcomeRecordedOnly(k) == outcomes[k]

\* A reservation without an outcome reads as UNKNOWN.
GetOutcome(k) ==
    IF outcomes[k] = "none" /\ receipts[k] # None THEN "UNKNOWN" ELSE outcomes[k]

\* The fingerprint leaves the authorization of a package step out: it is
\* minted again on every resume.
ReceiptMatches(q) ==
    LET row == receipts[q.key]
    IN  /\ row # None
        /\ row.intent = q.intent
        /\ q.intent.package \/ row.auth = q.auth.id

\* Mutant: a step that was merely started counts as a parent that exists.
CreatedResourceOnceStarted(k) == GetOutcome(k) # "none"

\* The resource a package step created, if its write is known to have worked.
CreatedResource(k) == outcomes[k] = "SUCCEEDED"

\* The keys of an account that have a row in a table of effects.
RowsOf(table, a) == {k \in Keys : table[k] # None /\ table[k].account = a}

\* Mutant: a reservation counts until its outcome is recorded, UNKNOWN included.
PendingUntilRecorded(a) ==
    {k \in Keys : /\ receipts[k] # None /\ receipts[k].intent.account = a
                  /\ receipts[k].outcome = "none"}
Pending(a) ==
    {k \in Keys : receipts[k] # None /\ receipts[k].intent.account = a /\ receipts[k].pending}

AppliedDelta(ks) == SumFunctionOnSet([k \in ks |-> applied[k].delta], ks)
PendingDelta(ks) == SumFunctionOnSet([k \in ks |-> receipts[k].delta], ks)

\* An outcome with neither receipt nor applied row: nobody can say which
\* account it belongs to, so every account is closed.
LegacyBarrier ==
    \E k \in Keys :
        /\ outcomes[k] \in Recorded
        /\ receipts[k] = None
        /\ applied[k] = None

-----------------------------------------------------------------------------
(* The pipeline's checks. *)

\* The caps of the account, counting what is applied on day d and in its
\* month, and every reservation whose effect is still unknown.
WithinCaps(q, d) ==
    LET i       == q.intent
        mine    == RowsOf(applied, i.account)
        today   == {k \in mine : applied[k].day = d}
        month   == {k \in mine : Month(applied[k].day) = Month(d)}
        pending == Pending(i.account)
    IN  WithinHardCaps(
            CapsOf[i.account],
            Before(i), i.after,
            Cardinality(today) + Cardinality(pending),
            AppliedDelta(today) + PendingDelta(pending),
            AppliedDelta(month) + PendingDelta(pending),
            i.op = "campaign")

\* Signature over this very intent, alive, of a kind a person stands behind;
\* a creation starts from no value, and a package step also needs its parent
\* confirmed in this ledger.
Verified(q, t) ==
    /\ q.auth.intent = q.intent
    /\ t < q.auth.expires_at
    /\ q.auth.kind = IF q.intent.package THEN "package_step" ELSE "human_approval"
    /\ q.intent.op \in {"campaign", "child"} => q.intent.before = Unreadable
    /\ q.intent.parent # None => CreatedResource(q.intent.parent)

\* WriteAuthorizationPipeline.authorize: nothing is persisted.
Authorize(q, t, drifted) ==
    IF ~Verified(q, t) \/ LegacyBarrier THEN "DENIED"
    ELSE IF ~WithinCaps(q, Day(t)) THEN "BLOCKED_HARD_CAP"
    ELSE IF drifted /\ q.intent.op # "campaign" THEN "SKIPPED_DRIFT"
    ELSE "OK"

\* _reserve_write up to the insert: "OK" means the row may be inserted.
\* Caps are counted at `now`, expiry is checked at `checked`.
ReserveVerdict(q, now, checked) ==
    LET prior == GetOutcome(q.key)
    IN  IF prior # "none"
        THEN IF ReceiptMatches(q) /\ Verified(q, checked) THEN prior ELSE "DENIED"
        ELSE IF ~Verified(q, checked) \/ LegacyBarrier THEN "DENIED"
        ELSE IF ~WithinCaps(q, Day(now)) THEN "BLOCKED_HARD_CAP"
        ELSE "OK"

NewReceipt(q, now) ==
    [intent |-> q.intent, auth |-> q.auth.id, day |-> Day(now),
     delta |-> PositiveDelta(q.intent.before, q.intent.after),
     outcome |-> "none", pending |-> TRUE]

-----------------------------------------------------------------------------
(* One request, from the socket to its answer. *)

At(s, pc) == slots[s].pc = pc
Goto(s, pc) == slots' = [slots EXCEPT ![s].pc = pc]
Answer(s, out) == slots' = [slots EXCEPT ![s].pc = "answered", ![s].out = out]

\* The captured clock reading dates every later step of the request. A new
\* campaign has no remote state to read: it is authorized at once.
Receive(s) ==
    \E q \in Requests :
        /\ At(s, "idle") /\ q.intent.op # "upload"
        /\ Resend \/ q.key \notin sent
        /\ LET v  == Authorize(q, clock, FALSE)
               at == IF q.intent.op # "campaign" THEN "reading"
                     ELSE IF v = "OK" THEN "preparing" ELSE "answered"
           IN  slots' = [slots EXCEPT ![s] =
                   [pc |-> at, req |-> q, now |-> clock,
                    out |-> IF at = "answered" THEN v ELSE "none"]]
        /\ sent' = sent \union {q.key}
        /\ UNCHANGED <<clock, tables, platform>>

\* begin_admitted_write: one transaction, no await inside.
TryReserve(s, checked) ==
    LET q == slots[s].req
        v == ReserveVerdict(q, slots[s].now, checked)
    IN  \/ /\ v = "OK"
           /\ receipts' = [receipts EXCEPT ![q.key] = NewReceipt(q, slots[s].now)]
           /\ Goto(s, "reserved")
           /\ UNCHANGED <<outcomes, applied>>
        \/ /\ v # "OK"
           /\ Answer(s, v)
           /\ UNCHANGED tables

\* The remote state arrived. For an update no await separates the
\* authorization from the reservation.
StateRead(s) ==
    /\ At(s, "reading")
    /\ \E drifted \in BOOLEAN :
           LET q == slots[s].req
               v == Authorize(q, slots[s].now, drifted)
           IN  \/ v # "OK" /\ Answer(s, v) /\ UNCHANGED tables
               \/ /\ v = "OK" /\ q.intent.op = "child"
                  /\ Goto(s, "preparing") /\ UNCHANGED tables
               \/ v = "OK" /\ q.intent.op = "update" /\ TryReserve(s, slots[s].now)
    /\ UNCHANGED <<clock, platform, sent>>

\* The platform could not be read: FAILED, and no receipt to prove it.
StateReadFailed(s) ==
    /\ At(s, "reading")
    /\ Answer(s, "FAILED")
    /\ UNCHANGED <<clock, tables, platform, sent>>

\* Currency, conversion goals, parent and rate budget of a creation; only a
\* child has its expiry checked against the clock of this very moment.
Prepared(s) ==
    /\ At(s, "preparing")
    /\ TryReserve(s, IF slots[s].req.intent.op = "child" THEN clock ELSE slots[s].now)
    /\ UNCHANGED <<clock, platform, sent>>

\* Mutant: what can still refuse the creation runs after the reservation.
PreparationFailedLate(s) ==
    /\ At(s, "preparing") \/ At(s, "reserved")
    /\ Answer(s, "DENIED")
    /\ UNCHANGED <<clock, tables, platform, sent>>

PreparationFailed(s) ==
    /\ At(s, "preparing")
    /\ Answer(s, "DENIED")
    /\ UNCHANGED <<clock, tables, platform, sent>>

\* Mutant: an error after the call is taken for one before it.
RateLimitedLate(s) ==
    /\ slots[s].pc \in {"reserved", "called"} /\ slots[s].req.intent.op = "update"
    /\ slots' = [slots EXCEPT ![s].pc = "called", ![s].out = "FAILED"]
    /\ UNCHANGED <<clock, tables, platform, sent>>

\* The daily operations budget of the process is spent: nothing is sent.
RateLimited(s) ==
    /\ At(s, "reserved") /\ slots[s].req.intent.op = "update"
    /\ slots' = [slots EXCEPT ![s].pc = "called", ![s].out = "FAILED"]
    /\ UNCHANGED <<clock, tables, platform, sent>>

\* The one call to the platform. Any error on the way back, the confirming
\* read included, leaves UNKNOWN, whether the change was made or not.  The change
\* is dated as the ledger dates it, by the request's own clock (finalize wants
\* the very instant given to authorize): the platform's day may be the next.
CallPlatform(s) ==
    /\ At(s, "reserved")
    /\ LET q == slots[s].req
       IN  /\ calls' = [calls EXCEPT ![q.key] = @ + 1]
           /\ \/ /\ effects' = [effects EXCEPT ![q.key] = Change(q.intent, slots[s].now)]
                 /\ \E out \in {"SUCCEEDED", "UNKNOWN"} :
                        slots' = [slots EXCEPT ![s].pc = "called", ![s].out = out]
              \/ /\ slots' = [slots EXCEPT ![s].pc = "called", ![s].out = "UNKNOWN"]
                 /\ UNCHANGED effects
    /\ UNCHANGED <<clock, tables, uploads, sent>>

\* Mutant: every recorded outcome ends the reservation.
SettledAlways(row, out) == [row EXCEPT !.outcome = out, !.pending = FALSE]

\* Only a known success ends a reservation; FAILED and UNKNOWN keep it pending.
Settled(row, out) == [row EXCEPT !.outcome = out, !.pending = out # "SUCCEEDED"]

\* finalize: one transaction; the first outcome of a key wins and only a
\* success writes an applied row, dated like the check that admitted it.
Finalize(s) ==
    /\ At(s, "called")
    /\ LET q         == slots[s].req
           out       == slots[s].out
           row       == receipts[q.key]
           persisted == IF outcomes[q.key] = "none" THEN out ELSE outcomes[q.key]
       IN  /\ receipts' = IF row.outcome # "none" THEN receipts
                          ELSE [receipts EXCEPT ![q.key] = Settled(row, out)]
           /\ outcomes' = [outcomes EXCEPT ![q.key] = persisted]
           /\ applied' = IF persisted = "SUCCEEDED" /\ applied[q.key] = None
                         THEN [applied EXCEPT ![q.key] = Change(q.intent, slots[s].now)]
                         ELSE applied
           /\ Answer(s, persisted)
    /\ UNCHANGED <<clock, platform, sent>>

Deliver(s) ==
    /\ At(s, "answered")
    /\ slots' = [slots EXCEPT ![s] = Idle]
    /\ UNCHANGED <<clock, tables, platform, sent>>

-----------------------------------------------------------------------------
(* admit_upload: the same ledger, without a reservation. *)

ReceiveUpload(s) ==
    \E q \in Requests :
        /\ At(s, "idle") /\ q.intent.op = "upload"
        /\ Resend \/ q.key \notin sent
        /\ LET at == IF ~Verified(q, clock) \/ CreatedResource(q.key)
                     THEN "answered" ELSE "uploading"
           IN  slots' = [slots EXCEPT ![s] =
                   [pc |-> at, req |-> q, now |-> clock,
                    out |-> IF at = "uploading" THEN "none"
                            ELSE IF Verified(q, clock) THEN "SUCCEEDED" ELSE "DENIED"]]
        /\ sent' = sent \union {q.key}
        /\ UNCHANGED <<clock, tables, platform>>

\* The provider stores the creative and says so; or the call fails, stored
\* or not, and the exception leaves nothing in the ledger.
Upload(s) ==
    /\ At(s, "uploading") /\ uploads[slots[s].req.key] < MaxUploads
    /\ LET k == slots[s].req.key
           stored == [uploads EXCEPT ![k] = @ + 1]
       IN  \/ uploads' = stored /\ Goto(s, "uploaded")
           \/ uploads' \in {uploads, stored} /\ Answer(s, "FAILED")
    /\ UNCHANGED <<clock, tables, effects, calls, sent>>

RecordUpload(s) ==
    /\ At(s, "uploaded")
    /\ LET k == slots[s].req.key
       IN  outcomes' = [outcomes EXCEPT ![k] = IF @ = "none" THEN "SUCCEEDED" ELSE @]
    /\ Answer(s, "SUCCEEDED")
    /\ UNCHANGED <<clock, receipts, applied, platform, sent>>

-----------------------------------------------------------------------------
Tick ==
    /\ clock < MaxClock
    /\ clock' = clock + 1
    /\ UNCHANGED <<slots, tables, platform, sent>>

\* The process dies and is started again: the tables are all that is left.
Crash ==
    /\ \E s \in Slots : ~At(s, "idle")
    /\ slots' = [s \in Slots |-> Idle]
    /\ UNCHANGED <<clock, tables, platform, sent>>

Step(s) ==
    \/ Receive(s) \/ StateRead(s) \/ StateReadFailed(s)
    \/ Prepared(s) \/ PreparationFailed(s)
    \/ RateLimited(s) \/ CallPlatform(s) \/ Finalize(s) \/ Deliver(s)
    \/ ReceiveUpload(s) \/ Upload(s) \/ RecordUpload(s)

Next == (\E s \in Slots : Step(s)) \/ Tick \/ Crash

Spec == Init /\ [][Next]_vars

-----------------------------------------------------------------------------
(* Properties. *)

TypeOK ==
    /\ clock \in 0 .. MaxClock
    /\ slots \in [Slots -> SlotState]
    /\ receipts \in [Keys -> ReceiptRow \union {None}]
    /\ outcomes \in [Keys -> Recorded \union {"none"}]
    /\ applied \in [Keys -> ChangeRow \union {None}]
    /\ effects \in [Keys -> ChangeRow \union {None}]
    /\ calls \in [Keys -> Nat]
    /\ uploads \in [Keys -> Nat]
    /\ sent \in SUBSET Keys

\* However often a key is sent, by however many requests at once, and whatever
\* crash falls between reservation, call and record, the platform is asked to
\* make the change at most once: begin_admitted_write.
AtMostOneCall == \A k \in Keys : calls[k] <= 1

\* Whatever the platform really changed is held against the caps for ever:
\* as an applied row of the same account, day and amount, or as a pending
\* reservation of at least its amount (write_receipts.pending, finalize).
EffectsAreCounted ==
    \A k \in Keys : effects[k] # None =>
        \/ applied[k] = effects[k]
        \/ /\ receipts[k] # None /\ receipts[k].pending
           /\ receipts[k].intent.account = effects[k].account
           /\ receipts[k].day = effects[k].day
           /\ receipts[k].delta >= effects[k].delta

EffectDelta(ks) == SumFunctionOnSet([k \in ks |-> effects[k].delta], ks)

\* The money really moved on the platform for one account never goes over its
\* daily or monthly cap, nor the number of changes over the daily maximum,
\* with requests of two days in flight at once (authorize, _check_caps).
SpendWithinCaps ==
    \A a \in Accounts, k \in Keys : effects[k] # None =>
        LET d     == effects[k].day
            mine  == RowsOf(effects, a)
            today == {m \in mine : effects[m].day = d}
            month == {m \in mine : Month(effects[m].day) = Month(d)}
        IN  /\ Cardinality(today) <= CapsOf[a].max_changes
            /\ EffectDelta(today) <= CapsOf[a].daily_cap
            /\ EffectDelta(month) <= CapsOf[a].monthly_cap

\* The three tables tell one story: an applied row exists exactly where the
\* recorded outcome is SUCCEEDED, and then the platform did make that change;
\* the receipt carries the recorded outcome and stays pending otherwise.
LedgerAgrees ==
    \A k \in Keys : receipts[k] # None =>
        /\ receipts[k].outcome = outcomes[k]
        /\ receipts[k].pending <=> outcomes[k] # "SUCCEEDED"
        /\ outcomes[k] = "SUCCEEDED" <=> applied[k] # None
        /\ applied[k] # None => applied[k] = effects[k]

\* A child of a package is only asked for once its parent is known to exist
\* on the platform (_verify_parent against created_resource).
ParentFirst ==
    \A k \in Keys : calls[k] > 0 =>
        LET parent == receipts[k].intent.parent
        IN  parent # None => outcomes[parent] = "SUCCEEDED" /\ effects[parent] # None

\* What ads-api reads as "surely not written" when it sends each key once: a
\* rejection is answered only for a key nothing was, or will be, done about
\* (denial_outcome; _rejection in broker_platform.py releases the money on it).
RejectionMeansNothingDone ==
    \A s \in Slots : At(s, "answered") /\ slots[s].out \in Rejections =>
        LET k == slots[s].req.key
        IN  receipts[k] = None /\ calls[k] = 0 /\ effects[k] = None

\* First outcome wins, and no row is ever taken back: a recorded verdict, an
\* applied change and the identity of a reservation are for good.
HistoryIsKept ==
    [][\A k \in Keys :
        /\ outcomes[k] # "none" => outcomes'[k] = outcomes[k]
        /\ applied[k] # None => applied'[k] = applied[k]
        /\ receipts[k] # None =>
               /\ receipts'[k] # None
               /\ [receipts'[k] EXCEPT !.outcome = "none", !.pending = TRUE]
                    = [receipts[k] EXCEPT !.outcome = "none", !.pending = TRUE]
               /\ receipts'[k].pending => receipts[k].pending]_vars

-----------------------------------------------------------------------------
(* The inductive invariant: what the slots remember fits what the tables    *)
(* say, and a reserved key has one owner.                                   *)

Owns(s) == slots[s].pc \in {"reserved", "called"}

\* An upload slot handles an upload, any other slot a write.
SlotsFit ==
    \A s \in Slots :
        /\ slots[s].pc \in {"uploading", "uploaded"} => slots[s].req.intent.op = "upload"
        /\ slots[s].pc \in {"reading", "preparing", "reserved", "called"} =>
               slots[s].req.intent.op # "upload"

\* What the slot between reservation and record knows of its key.
OwnerKnows(s) ==
    LET q == slots[s].req
        k == q.key
    IN  /\ receipts[k] # None
        /\ receipts[k].outcome = "none" /\ receipts[k].intent = q.intent
        /\ receipts[k].day = Day(slots[s].now)
        /\ At(s, "reserved") => calls[k] = 0
        /\ At(s, "called") =>
               \/ slots[s].out = "FAILED" /\ calls[k] = 0
               \/ slots[s].out = "UNKNOWN" /\ calls[k] = 1
               \/ slots[s].out = "SUCCEEDED" /\ effects[k] # None

OwnersKnow == \A s \in Slots : Owns(s) => OwnerKnows(s)

OneOwner ==
    \A s, t \in Slots : Owns(s) /\ Owns(t) /\ s # t => slots[s].req.key # slots[t].req.key

\* The change a reservation stands for.
Promised(row) ==
    [account |-> row.intent.account, day |-> row.day,
     delta |-> SignedDelta(Before(row.intent), row.intent.after)]

\* Without a reservation nothing was done; with one, only what it stands for.
ReservedFirst ==
    \A k \in Keys :
        /\ calls[k] \in {0, 1}
        /\ effects[k] # None => calls[k] = 1
        /\ receipts[k] = None => calls[k] = 0 /\ applied[k] = None
        /\ receipts[k] # None =>
               /\ \E q \in Requests : q.key = k /\ q.intent.op # "upload"
               /\ receipts[k].delta >= Promised(receipts[k]).delta
               /\ effects[k] \in {None, Promised(receipts[k])}

IInv == TypeOK /\ SlotsFit /\ OwnersKnow /\ OneOwner /\ ReservedFirst /\ LedgerAgrees

-----------------------------------------------------------------------------
(* The abstract port, seen through the ledger and the platform. *)

ReceiptView ==
    [k \in Keys |-> IF receipts[k] = None THEN "absent"
                    ELSE IF receipts[k].outcome = "none" THEN "open"
                    ELSE receipts[k].outcome]

Port == INSTANCE WritePort WITH
            receipt <- ReceiptView,
            asked   <- {k \in Keys : calls[k] > 0},
            changed <- {k \in Keys : effects[k] # None}

\* The broker implements WritePort: reserve, ask once, settle, never revise.
ImplementsWritePort == Port!PortSpec

-----------------------------------------------------------------------------
(* What the source says of uploads, and the code does not do. *)

\* write_pipeline.py:322: "misma clave -> mismo manejador, nunca una segunda
\* subida, que `idempotent_writes` ya garantiza".
OneUploadPerKey == \A k \in Keys : uploads[k] <= 1

\* write_ledger_store.py:89: the barrier is for rows of old binaries, "a
\* fail-closed legacy barrier"; this ledger is fresh and holds no such row.
BarrierOnlyForHistory == ~LegacyBarrier
=============================================================================
