---------------------------- MODULE NotificationDelivery ----------------------------
(***************************************************************************)
(* The notification cycle of the worker for one business: at every tick of *)
(* run_forever (orchestration/presentation/worker_schedule.py) it runs the *)
(* digest step and then the ticker step, each retried up to three times by *)
(* run_step_for_business, over the table `notifications`: the queue of     *)
(* digest entries and the outbox that reserves a dedupe key before the     *)
(* message leaves.  Every SQL statement runs in a session of its own       *)
(* (_PerCallNotificationOutbox, _PerCallPendingDigest): it may commit and  *)
(* still raise, or raise without committing.  Telegram accepts a message   *)
(* whose answer is lost, or refuses with an error the sender does not      *)
(* catch.  The worker may crash between any two steps.                     *)
(*                                                                         *)
(* Time is counted in slots, HourLength of them to the hour; a cycle takes *)
(* up to MaxDelay slots before and after it reads the clock.               *)
(***************************************************************************)
EXTENDS Naturals, Sequences, FiniteSets

CONSTANTS HourLength,     \* slots in an hour
          DayHours,       \* hours in a day
          Active,         \* the hours of ActiveHoursWindow
          DigestHour,     \* DigestSchedule.hour
          Chats,          \* how many chats the owner has (owner_chat_ids)
          Tries,          \* _MAX_DELIVERY_ATTEMPTS
          MaxEntries,     \* bound on the digest queue
          MaxDelay,       \* bound on the slots a cycle's other steps take
          MaxSlot,        \* bound on the clock
          MaxWorkerCrashes      \* bound on the crashes of the worker

ASSUME ClockAssumption ==
    /\ HourLength \in Nat \ {0} /\ DayHours \in Nat \ {0}
    /\ Active \subseteq 0 .. (DayHours - 1) /\ DigestHour \in 0 .. (DayHours - 1)
    /\ {Chats, Tries, MaxEntries, MaxDelay, MaxSlot, MaxWorkerCrashes} \subseteq Nat
    /\ Chats > 0         \* without a chat there is no sender (_build_messenger)

VARIABLES now,       \* the slot of the cycle's `now`
          at,        \* where the worker is
          attempt,   \* run_with_retry's attempt
          report,    \* the StepResult of this cycle's digest step
          chat,      \* the chat fan_out_to_owner_chats is serving
          body,      \* the queue entries in the message being delivered
          sending,   \* how the send in hand ended
          entries,   \* the digest queue: what became of each entry
          carried,   \* history: the cycles whose digest told each entry
          outbox,    \* the reserved notifications of this slot, by dedupe key, with
                     \* history: messenger calls for each and copies Telegram took
          workerCrashes

deliveryVars == <<now, at, attempt, report, chat, body, sending, entries, carried, outbox, workerCrashes>>

Hour(t) == (t \div HourLength) % DayHours
IsActive(t) == Hour(t) \in Active
IsDue(t) == Hour(t) = DigestHour

\* A step's place among its own sends.
Digesting == {"digest", "digest reserve", "digest send", "digest record"}
Ticking == {"ticker", "ticker reserve", "ticker send", "ticker record"}
Kind == IF at \in Digesting THEN "digest" ELSE "ticker"
Reserving == at \in {"digest reserve", "ticker reserve"}
Sending == at \in {"digest send", "ticker send"}
Recording == at \in {"digest record", "ticker record"}
Phase(digest, ticker) == IF Kind = "digest" THEN digest ELSE ticker

\* base_dedupe_key and the chat: two cycles never start in the same slot
\* unless the worker was restarted in between.
Key == [kind |-> Kind, slot |-> now, chat |-> chat]
NoRows == [k \in {} |-> k]
Pending == {e \in DOMAIN entries : entries[e] = "PENDING"}

DeliveryInit ==
    /\ now = 0 /\ at = "down" /\ attempt = 1 /\ report = "none"
    /\ chat = 1 /\ body = {} /\ sending = "none"
    /\ entries = <<>> /\ carried = <<>> /\ outbox = NoRows /\ workerCrashes = 0

-----------------------------------------------------------------------------
(* The schedule *)

Interval(t) == IF IsActive(t) THEN 1 ELSE HourLength

\* The rows of an earlier slot stay in the table, but no key names them again.
OutboxAt(t) == IF t = now THEN outbox ELSE NoRows

\* What is left of the cycle, the sleep chosen from the hour it ends in, and
\* the ingestion, economics, signal and rule cycles of the next one.
Tick ==
    /\ at = "idle"
    /\ \E rest, prelude \in 0 .. MaxDelay :
           now' = now + rest + Interval(now + rest) + prelude
    /\ now' <= MaxSlot
    /\ at' = "digest" /\ attempt' = 1 /\ report' = "none"
    /\ outbox' = OutboxAt(now')
    /\ UNCHANGED <<chat, body, sending, entries, carried, workerCrashes>>

\* The worker comes up and begins a cycle at once.
Start ==
    /\ at = "down"
    /\ \E prelude \in 0 .. MaxDelay : now' = now + prelude
    /\ now' <= MaxSlot
    /\ at' = "digest"
    /\ outbox' = OutboxAt(now')
    /\ UNCHANGED <<attempt, report, chat, body, sending, entries, carried, workerCrashes>>

\* The process dies, and with it what it had in memory.
Crash ==
    /\ at # "down" /\ workerCrashes < MaxWorkerCrashes
    /\ at' = "down" /\ workerCrashes' = workerCrashes + 1
    /\ attempt' = 1 /\ report' = "none" /\ chat' = 1 /\ body' = {} /\ sending' = "none"
    /\ UNCHANGED <<now, entries, carried, outbox>>

\* The step in hand ends with outcome o, and the next one begins.
Ends(o) ==
    /\ at' = (IF Kind = "digest" THEN "ticker" ELSE "idle")
    /\ report' = (IF Kind = "digest" THEN o ELSE report)
    /\ attempt' = 1 /\ chat' = 1 /\ body' = {} /\ sending' = "none"

MaxStepAttempts == 3
\* Mutant: the count of the attempts is lost.
NextAttemptSame(n) == n

NextAttempt(n) == n + 1

\* An exception leaves the operation: run_with_retry starts it again, or gives
\* the step up.
Raises ==
    \/ /\ attempt < MaxStepAttempts
       /\ attempt' = NextAttempt(attempt)
       /\ at' = Kind
       /\ chat' = 1 /\ body' = {} /\ sending' = "none"
       /\ UNCHANGED report
    \/ attempt >= MaxStepAttempts /\ Ends("FAILED")

-----------------------------------------------------------------------------
(* The digest queue *)

\* Mutant: the digest is read and its entries are left in the queue.
MarkedNever == entries

Marked == [e \in DOMAIN entries |-> IF e \in Pending THEN "SUPPRESSED" ELSE entries[e]]

\* The queue and the outbox share the table, and a digest's own message waits in
\* it under the kind and the state of a queue entry: what a crash or an error
\* left reserved is taken with the queue, and tells nothing (it has no signals).
Suppressed ==
    [k \in DOMAIN outbox |->
        IF k.kind = "digest" /\ outbox[k].state = "PENDING"
        THEN [outbox[k] EXCEPT !.state = "SUPPRESSED"] ELSE outbox[k]]

\* pop_due: nothing is due, or the whole queue is taken in one transaction.
PopDue ==
    /\ at = "digest"
    /\ \/ /\ ~IsDue(now)
          /\ Ends("SUCCESS")
          /\ UNCHANGED <<entries, outbox>>
       \/ /\ IsDue(now)
          /\ entries' = Marked /\ outbox' = Suppressed
          /\ \/ Pending = {} /\ Ends("SUCCESS")
             \/ /\ Pending # {}
                /\ body' = Pending
                /\ at' = "digest reserve" /\ chat' = 1
                /\ UNCHANGED <<attempt, report, sending>>
    /\ UNCHANGED <<now, carried, workerCrashes>>

\* enqueue: the signals become one more entry of the queue.
Queued ==
    /\ Len(entries) < MaxEntries
    /\ entries' = Append(entries, "PENDING")
    /\ carried' = Append(carried, {})

\* PublishTicker: no signal to tell; outside the active hours they are queued;
\* within them they are sent as they are.
PublishTicker ==
    /\ at = "ticker"
    /\ \/ Ends("SUCCESS") /\ UNCHANGED <<entries, carried>>
       \/ /\ ~IsActive(now)
          /\ Queued
          /\ Ends("SUCCESS")
       \/ /\ IsActive(now)
          /\ at' = "ticker reserve" /\ chat' = 1
          /\ UNCHANGED <<attempt, report, body, sending, entries, carried>>
    /\ UNCHANGED <<now, outbox, workerCrashes>>

\* The statement of the step in hand raises; the queue took it or did not.
QueueError ==
    /\ at \in {"digest", "ticker"}
    /\ Raises
    /\ \/ UNCHANGED <<entries, carried, outbox>>
       \/ /\ at = "digest" /\ IsDue(now)
          /\ entries' = Marked /\ outbox' = Suppressed
          /\ UNCHANGED carried
       \/ at = "ticker" /\ ~IsActive(now) /\ Queued /\ UNCHANGED outbox
    /\ UNCHANGED <<now, workerCrashes>>

-----------------------------------------------------------------------------
(* Delivery *)

Reserved == [state |-> "PENDING", calls |-> 0, copies |-> 0]
Taken(k) == k \in DOMAIN outbox
WithReserved ==
    [k \in {Key} \cup DOMAIN outbox |-> IF k = Key THEN Reserved ELSE outbox[k]]
Carried == [e \in DOMAIN entries |-> IF e \in body THEN carried[e] \cup {now} ELSE carried[e]]
Reserve == outbox' = WithReserved /\ carried' = Carried

NextChat ==
    IF chat < Chats
    THEN chat' = chat + 1 /\ at' = Phase("digest reserve", "ticker reserve") /\ sending' = "none"
         /\ UNCHANGED <<attempt, report, body>>
    ELSE Ends("SUCCESS")

\* try_reserve: INSERT .. ON CONFLICT (dedupe_key) DO NOTHING.
TryReserve ==
    /\ Reserving
    /\ \/ /\ ~Taken(Key)
          /\ Reserve
          /\ at' = Phase("digest send", "ticker send")
          /\ UNCHANGED <<attempt, report, chat, body, sending>>
       \/ Taken(Key) /\ NextChat /\ UNCHANGED <<carried, outbox>>
    /\ UNCHANGED <<now, entries, workerCrashes>>

ReserveError ==
    /\ Reserving
    /\ Raises
    /\ \/ UNCHANGED <<carried, outbox>>
       \/ ~Taken(Key) /\ Reserve
    /\ UNCHANGED <<now, entries, workerCrashes>>

\* _with_retry sends up to Tries times: a timeout may hide a message that
\* Telegram delivered.  The last try answers, times out too, or is refused
\* with an error nobody catches.
Delivered(n) == [outbox EXCEPT ![Key].calls = @ + 1, ![Key].copies = @ + n]
Send ==
    /\ Sending
    /\ \/ \E n \in 1 .. Tries : /\ outbox' = Delivered(n)
                                /\ sending' = "SENT"
                                /\ at' = Phase("digest record", "ticker record")
                                /\ UNCHANGED <<attempt, report, chat, body>>
       \/ \E n \in 0 .. Tries : /\ outbox' = Delivered(n)
                                /\ sending' = "FAILED"
                                /\ at' = Phase("digest record", "ticker record")
                                /\ UNCHANGED <<attempt, report, chat, body>>
       \/ \E n \in 0 .. (Tries - 1) : outbox' = Delivered(n) /\ Raises
    /\ UNCHANGED <<now, entries, carried, workerCrashes>>

Recorded == [outbox EXCEPT ![Key].state = sending]

\* outbox.save, and the next chat.
Record ==
    /\ Recording
    /\ outbox' = Recorded
    /\ NextChat
    /\ UNCHANGED <<now, entries, carried, workerCrashes>>

RecordError ==
    /\ Recording
    /\ Raises
    /\ outbox' \in {outbox, Recorded}
    /\ UNCHANGED <<now, entries, carried, workerCrashes>>

-----------------------------------------------------------------------------
Cycle == PopDue \/ PublishTicker \/ QueueError \/ TryReserve \/ ReserveError
         \/ Send \/ Record \/ RecordError
DeliveryNext == Start \/ Tick \/ Crash \/ Cycle

DeliverySpec == DeliveryInit /\ [][DeliveryNext]_deliveryVars

\* The worker's event loop runs the cycle it began.
DeliveryFairSpec == DeliverySpec /\ WF_deliveryVars(Cycle)
-----------------------------------------------------------------------------
(* Properties *)

Phases == {"down", "idle"} \cup Digesting \cup Ticking

Notices == [kind : {"digest", "ticker"}, slot : 0 .. MaxSlot, chat : 1 .. Chats]
OutboxRow == [state : {"PENDING", "SUPPRESSED", "SENT", "FAILED"}, calls : Nat, copies : Nat]

\* Every variable stays within its type: the step retried at most three times,
\* the outbox one row for each kind and chat.
DeliveryTypeOK ==
    /\ now \in 0 .. MaxSlot /\ at \in Phases /\ attempt \in 1 .. MaxStepAttempts
    /\ report \in {"none", "SUCCESS", "FAILED"} /\ chat \in 1 .. Chats
    /\ body \subseteq DOMAIN entries /\ sending \in {"none", "SENT", "FAILED"}
    /\ entries \in Seq({"PENDING", "SUPPRESSED"}) /\ Len(entries) <= MaxEntries
    /\ carried \in Seq(SUBSET (0 .. MaxSlot)) /\ Len(carried) = Len(entries)
    /\ DOMAIN outbox \subseteq Notices /\ outbox \in [DOMAIN outbox -> OutboxRow]
    /\ \A k \in DOMAIN outbox : k.slot = now
    /\ workerCrashes \in 0 .. MaxWorkerCrashes

\* Whatever the retries of the step, the statements that commit and raise and
\* the restarts of the worker, the messenger is called once at most for a
\* reserved notification: try_reserve commits before the message leaves, and a
\* row already there is passed over.  That call may leave as many as Tries copies.
AskedOnce == \A k \in DOMAIN outbox : outbox[k].calls <= 1 /\ outbox[k].copies <= Tries

\* A queued signal goes into the digest of one cycle only: pop_due takes the
\* queue for good before anything is sent.
ToldInOneDigest == \A e \in DOMAIN entries : Cardinality(carried[e]) <= 1

\* A notification recorded as SENT reached the owner.
SentIsTrue == \A k \in DOMAIN outbox : outbox[k].state = "SENT" => outbox[k].copies >= 1

\* One notification, one call of the messenger; one signal, one digest; and
\* SENT is no guess.
OneCallOneDigest == AskedOnce /\ ToldInOneDigest /\ SentIsTrue

\* "para que un reintento nunca duplique el mensaje" (value_objects.py): no
\* notification reaches a chat twice.  The code refutes it: within one call,
\* _with_retry sends again after a timeout that may hide a delivery.
OneCopyPerMessage == \A k \in DOMAIN outbox : outbox[k].copies <= 1

\* Statements that raise and a Telegram that refuses or times out never hold
\* the cycle: it comes to its end, and the worker to its sleep.  (That a
\* statement answers or raises at all is assumed: no command has a timeout.)
CycleEnds == (at \in Digesting \cup Ticking) ~> (at \in {"idle", "down"})

\* "nunca exito parcial silencioso" (retry.py): a digest step that took the
\* queue and reports SUCCESS has reserved its message for every chat.
DigestStepIsWhole ==
    at \in Ticking /\ report = "SUCCESS" =>
        \A c, d \in 1 .. Chats :
            [kind |-> "digest", slot |-> now, chat |-> c] \in DOMAIN outbox =>
                [kind |-> "digest", slot |-> now, chat |-> d] \in DOMAIN outbox

\* "el digest ahora se libera una unica vez al dia, a esta hora exacta"
\* (value_objects.py): no tick of the schedule steps over a whole digest hour.
DigestHourIsKept ==
    [][Tick => ~ \E t \in now .. now' : /\ \A s \in t .. (t + HourLength - 1) : IsDue(s)
                                       /\ now < t /\ t + HourLength <= now']_deliveryVars

=============================================================================
