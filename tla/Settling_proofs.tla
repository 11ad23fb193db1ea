-------------------------- MODULE Settling_proofs ---------------------------
(***************************************************************************)
(* The theorems of what runs on its own, tick by tick, until it is done.   *)
(*                                                                         *)
(* NotificationDelivery and WorkerProcess, what may be done by one only:   *)
(* for any chats, tries, queues, dates and containers, and any crashes and *)
(* lost sessions. Of the notification cycle, types first; then what the    *)
(* outbox tells of the messages (TellInv), what the digests have told of   *)
(* the queue (DigestInv), and that one message is one call. Of the worker, *)
(* who holds the session lock. Then both beside the rest of what settles.  *)
(*                                                                         *)
(* PackagePublication, the saga that publishes: for any plan of steps, any *)
(* versions of the tree, any requests of the owner and any crashes. Types  *)
(* and the facts of the operators first, then the inductive invariant, one *)
(* lemma per group of steps, and the theorems.                             *)
(***************************************************************************)
EXTENDS MCSettling, PackagePublication, FiniteSetTheorems, SequenceTheorems, TLAPS

\* What the outbox tells of the messages: one call at most for a row, and where
\* the cycle is in the row it has reserved.
TellInv ==
    /\ \A k \in DOMAIN outbox :
           /\ outbox[k].calls = 0 => outbox[k].copies = 0
           /\ outbox[k].calls <= 1 /\ outbox[k].copies <= Tries
           /\ outbox[k].state = "SENT" => outbox[k].copies >= 1
    /\ Sending => Taken(Key) /\ outbox[Key].calls = 0
    /\ Recording => /\ Taken(Key) /\ sending \in {"SENT", "FAILED"}
                    /\ sending = "SENT" => outbox[Key].copies >= 1

\* What the digests have told of the queue: nothing of an entry that waits, and
\* of an entry in the message in hand, this cycle's digest at most.
DigestInv ==
    /\ body # {} => at \in {"digest reserve", "digest send", "digest record"}
    /\ \A e \in Pending : carried[e] = {}
    /\ \A e \in body : e \notin Pending /\ carried[e] \subseteq {now}
    /\ \A e \in DOMAIN entries : \E t \in 0 .. MaxSlot : carried[e] \subseteq {t}

-----------------------------------------------------------------------------
(* The notification cycle: types. *)

\* The constants, one by one.
LEMMA ClockTypes ==
    /\ HourLength \in Nat /\ Chats \in Nat /\ 1 \in 1 .. Chats /\ Tries \in Nat
    /\ MaxEntries \in Nat /\ MaxDelay \in Nat /\ MaxSlot \in Nat /\ MaxWorkerCrashes \in Nat
    /\ 1 \in 1 .. MaxStepAttempts
BY ClockAssumption DEF MaxStepAttempts

\* A function over the first numbers is a sequence.
LEMMA FunctionIsSeq ==
    ASSUME NEW S, NEW n \in Nat, NEW f \in [1 .. n -> S]
    PROVE  f \in Seq(S) /\ Len(f) = n
BY SeqDef

\* A key of the step in hand is of this slot and of one of the chats.
LEMMA KeyType ==
    ASSUME DeliveryTypeOK
    PROVE  Key \in Notices /\ Key.slot = now
BY DEF DeliveryTypeOK, Key, Kind, Notices

\* The queue taken, and one more entry of it, are queues.
LEMMA QueueTypes ==
    ASSUME DeliveryTypeOK
    PROVE  /\ Marked \in Seq({"PENDING", "SUPPRESSED"}) /\ Len(Marked) = Len(entries)
           /\ Carried \in Seq(SUBSET (0 .. MaxSlot)) /\ Len(Carried) = Len(carried)
<1>1. Marked \in [1 .. Len(entries) -> {"PENDING", "SUPPRESSED"}]
  BY DEF DeliveryTypeOK, Marked
<1>2. Carried \in [1 .. Len(carried) -> SUBSET (0 .. MaxSlot)]
  BY DEF DeliveryTypeOK, Carried
<1>3. Len(entries) \in Nat /\ Len(carried) \in Nat
  BY DEF DeliveryTypeOK
<1> QED BY <1>1, <1>2, <1>3, FunctionIsSeq

\* An entry more.
LEMMA QueuedTypes ==
    ASSUME DeliveryTypeOK, Queued
    PROVE  /\ entries' \in Seq({"PENDING", "SUPPRESSED"}) /\ Len(entries') <= MaxEntries
           /\ carried' \in Seq(SUBSET (0 .. MaxSlot)) /\ Len(carried') = Len(entries')
           /\ DOMAIN entries \subseteq DOMAIN entries'
<1>1. /\ Append(entries, "PENDING") \in Seq({"PENDING", "SUPPRESSED"})
      /\ Len(Append(entries, "PENDING")) = Len(entries) + 1
      /\ DOMAIN entries = 1 .. Len(entries) /\ Len(entries) \in Nat
  BY DEF DeliveryTypeOK
<1>2. /\ Append(carried, {}) \in Seq(SUBSET (0 .. MaxSlot))
      /\ Len(Append(carried, {})) = Len(carried) + 1
  BY DEF DeliveryTypeOK
<1>3. DOMAIN Append(entries, "PENDING") = 1 .. (Len(entries) + 1)
  BY <1>1
<1>4. Len(entries) + 1 <= MaxEntries
  BY <1>1, ClockTypes DEF Queued
<1> QED BY <1>1, <1>2, <1>3, <1>4 DEF DeliveryTypeOK, Queued

\* The ends of a step, and its start again, keep the worker's types.
LEMMA StepMoves ==
    ASSUME DeliveryTypeOK,
           (Raises \/ NextChat \/ \E o \in {"SUCCESS", "FAILED"} : Ends(o))
    PROVE  /\ at' \in Phases /\ attempt' \in 1 .. MaxStepAttempts
           /\ report' \in {"none", "SUCCESS", "FAILED"} /\ chat' \in 1 .. Chats
           /\ body' \in {{}, body} /\ sending' \in {"none", "SENT", "FAILED"}
<1>0. /\ attempt \in 1 .. 3 /\ chat \in 1 .. Chats
      /\ report \in {"none", "SUCCESS", "FAILED"} /\ sending \in {"none", "SENT", "FAILED"}
  BY DEF DeliveryTypeOK, MaxStepAttempts
<1>p. {"digest", "digest reserve", "ticker", "ticker reserve", "idle"} \subseteq Phases
  BY DEF Phases, Digesting, Ticking
<1>1. ASSUME NEW o \in {"SUCCESS", "FAILED"}, Ends(o)
      PROVE  /\ at' \in Phases /\ attempt' \in 1 .. MaxStepAttempts
             /\ report' \in {"none", "SUCCESS", "FAILED"} /\ chat' \in 1 .. Chats
             /\ body' \in {{}, body} /\ sending' \in {"none", "SENT", "FAILED"}
  <2>1. chat' \in 1 .. Chats /\ attempt' \in 1 .. MaxStepAttempts
    BY <1>1, ClockTypes DEF Ends, MaxStepAttempts
  <2> QED BY <1>0, <1>p, <1>1, <2>1 DEF Ends
<1>2. CASE Raises /\ ~ Ends("FAILED")
  <2>1. attempt' \in 1 .. MaxStepAttempts
    BY <1>0, <1>2 DEF Raises, NextAttempt, MaxStepAttempts
  <2>2. chat' = 1 /\ body' = {} /\ sending' = "none" /\ report' = report /\ at' = Kind
    BY <1>2 DEF Raises
  <2> QED BY <1>0, <1>p, <2>1, <2>2, ClockTypes DEF Kind
<1>3. CASE NextChat /\ chat < Chats
  <2>1. /\ chat' = chat + 1 /\ sending' = "none" /\ UNCHANGED <<attempt, report, body>>
        /\ at' \in {"digest reserve", "ticker reserve"}
    BY <1>3 DEF NextChat, Phase
  <2>2. chat + 1 \in 1 .. Chats
    BY <1>0, <1>3, ClockTypes
  <2> QED BY <1>0, <1>p, <2>1, <2>2 DEF MaxStepAttempts
<1>4. CASE NextChat /\ ~ (chat < Chats)
  BY <1>1, <1>4 DEF NextChat
<1> QED BY <1>1, <1>2, <1>3, <1>4

\* A row more, a row sent and a row recorded are rows of the outbox.
LEMMA OutboxTypes ==
    ASSUME DeliveryTypeOK
    PROVE  /\ DOMAIN WithReserved = {Key} \cup DOMAIN outbox
           /\ WithReserved \in [DOMAIN WithReserved -> OutboxRow]
           /\ \A n \in Nat : /\ DOMAIN Delivered(n) = DOMAIN outbox
                             /\ Delivered(n) \in [DOMAIN outbox -> OutboxRow]
           /\ DOMAIN Recorded = DOMAIN outbox
           /\ sending # "none" => Recorded \in [DOMAIN outbox -> OutboxRow]
           /\ Suppressed \in [DOMAIN outbox -> OutboxRow]
<1>1. outbox \in [DOMAIN outbox -> OutboxRow] /\ sending \in {"none", "SENT", "FAILED"}
  BY DEF DeliveryTypeOK
<1>2. WithReserved \in [{Key} \cup DOMAIN outbox -> OutboxRow]
  BY <1>1 DEF WithReserved, Reserved, OutboxRow
<1>3. ASSUME NEW n \in Nat
      PROVE  DOMAIN Delivered(n) = DOMAIN outbox /\ Delivered(n) \in [DOMAIN outbox -> OutboxRow]
  <2>1. \A k \in DOMAIN outbox : outbox[k].calls + 1 \in Nat /\ outbox[k].copies + n \in Nat
    BY <1>1 DEF OutboxRow
  <2> QED BY <1>1, <2>1 DEF Delivered, OutboxRow
<1>4. DOMAIN Recorded = DOMAIN outbox
  BY <1>1 DEF Recorded
<1>5. sending # "none" => Recorded \in [DOMAIN outbox -> OutboxRow]
  BY <1>1 DEF Recorded, OutboxRow
<1>6. Suppressed \in [DOMAIN outbox -> OutboxRow]
  BY <1>1 DEF Suppressed, OutboxRow
<1> QED BY <1>2, <1>3, <1>4, <1>5, <1>6

\* The cycle comes up with every type.
LEMMA DeliveryInitTypeOK == DeliveryInit => DeliveryTypeOK
BY ClockTypes
   DEF DeliveryInit, DeliveryTypeOK, Phases, Notices, OutboxRow, NoRows, MaxStepAttempts

\* Every step of the worker keeps them; a row is only recorded after a send.
LEMMA DeliveryNextTypeOK ==
    DeliveryTypeOK /\ TellInv /\ [DeliveryNext]_deliveryVars => DeliveryTypeOK'
<1> SUFFICES ASSUME DeliveryTypeOK, TellInv, [DeliveryNext]_deliveryVars PROVE DeliveryTypeOK'
  OBVIOUS
<1> USE DEF DeliveryTypeOK
<1>1. ASSUME Start \/ Tick PROVE DeliveryTypeOK'
  <2>0. \A t : Interval(t) \in Nat
    BY ClockTypes DEF Interval
  <2>1. now' \in Nat /\ now' <= MaxSlot
    <3>1. \A d \in 0 .. MaxDelay : d \in Nat
      OBVIOUS
    <3> QED BY <1>1, <2>0, <3>1 DEF Start, Tick
  <2>2. /\ DOMAIN outbox' \subseteq Notices /\ outbox' \in [DOMAIN outbox' -> OutboxRow]
        /\ \A k \in DOMAIN outbox' : k.slot = now'
    BY <1>1 DEF Start, Tick, OutboxAt, NoRows
  <2>3. at' \in Phases /\ attempt' \in 1 .. MaxStepAttempts
        /\ report' \in {"none", "SUCCESS", "FAILED"}
    <3>1. at' = "digest" /\ (UNCHANGED <<attempt, report>> \/ (attempt' = 1 /\ report' = "none"))
      BY <1>1 DEF Start, Tick
    <3>2. "digest" \in Phases
      BY DEF Phases, Digesting
    <3> QED BY <3>1, <3>2, ClockTypes
  <2>4. UNCHANGED <<chat, body, sending, entries, carried, workerCrashes>>
    BY <1>1 DEF Start, Tick
  <2>5. now' \in 0 .. MaxSlot
    BY <2>1, ClockTypes
  <2> QED BY <2>2, <2>3, <2>4, <2>5
<1>2. ASSUME Crash PROVE DeliveryTypeOK'
  BY <1>2, ClockTypes DEF Crash, Phases, MaxStepAttempts
<1>3. ASSUME PopDue PROVE DeliveryTypeOK'
  <2>0. /\ UNCHANGED <<now, carried, workerCrashes>>
        /\ outbox' \in {outbox, Suppressed} /\ entries' \in {entries, Marked}
    BY <1>3 DEF PopDue
  <2>1. DOMAIN outbox' = DOMAIN outbox /\ outbox' \in [DOMAIN outbox -> OutboxRow]
    BY <2>0, OutboxTypes
  <2>2. /\ entries' \in Seq({"PENDING", "SUPPRESSED"}) /\ Len(entries') = Len(entries)
        /\ DOMAIN entries' = DOMAIN entries
    BY <2>0, QueueTypes DEF Marked
  <2>3. CASE Ends("SUCCESS")
    <3>1. body' \in {{}, body} /\ body' \subseteq DOMAIN entries'
      BY <2>2, <2>3, StepMoves
    <3> QED BY <2>0, <2>1, <2>2, <2>3, <3>1, StepMoves
  <2>4. CASE body' = Pending /\ at' = "digest reserve" /\ chat' = 1
             /\ UNCHANGED <<attempt, report, sending>>
    <3>1. at' \in Phases /\ chat' \in 1 .. Chats
      BY <2>4, ClockTypes DEF Phases, Digesting
    <3>2. body' \subseteq DOMAIN entries'
      BY <2>2, <2>4 DEF Pending
    <3> QED BY <2>0, <2>1, <2>2, <2>4, <3>1, <3>2
  <2> QED BY <1>3, <2>3, <2>4 DEF PopDue
<1>4. ASSUME PublishTicker PROVE DeliveryTypeOK'
  <2>0. UNCHANGED <<now, outbox, workerCrashes>>
    BY <1>4 DEF PublishTicker
  <2>1. CASE Ends("SUCCESS") /\ UNCHANGED <<entries, carried>>
    BY <2>0, <2>1, StepMoves
  <2>2. CASE Ends("SUCCESS") /\ Queued
    BY <2>0, <2>2, StepMoves, QueuedTypes
  <2>3. CASE at' = "ticker reserve" /\ chat' = 1
             /\ UNCHANGED <<attempt, report, body, sending, entries, carried>>
    BY <2>0, <2>3, ClockTypes DEF Phases, Ticking
  <2> QED BY <1>4, <2>1, <2>2, <2>3 DEF PublishTicker
<1>5. ASSUME QueueError PROVE DeliveryTypeOK'
  <2>1. /\ at' \in Phases /\ attempt' \in 1 .. MaxStepAttempts
        /\ report' \in {"none", "SUCCESS", "FAILED"} /\ chat' \in 1 .. Chats
        /\ body' \in {{}, body} /\ sending' \in {"none", "SENT", "FAILED"}
    BY <1>5, StepMoves DEF QueueError
  <2>2. /\ UNCHANGED <<now, workerCrashes>>
        /\ DOMAIN outbox' = DOMAIN outbox /\ outbox' \in [DOMAIN outbox -> OutboxRow]
    BY <1>5, OutboxTypes DEF QueueError
  <2>3. /\ entries' \in Seq({"PENDING", "SUPPRESSED"}) /\ Len(entries') <= MaxEntries
        /\ carried' \in Seq(SUBSET (0 .. MaxSlot)) /\ Len(carried') = Len(entries')
        /\ DOMAIN entries \subseteq DOMAIN entries'
    <3>1. CASE UNCHANGED <<entries, carried>>
      BY <3>1
    <3>2. CASE entries' = Marked /\ UNCHANGED carried
      BY <3>2, QueueTypes DEF Marked
    <3>3. CASE Queued
      BY <3>3, QueuedTypes
    <3> QED BY <1>5, <3>1, <3>2, <3>3 DEF QueueError
  <2> QED BY <2>1, <2>2, <2>3
<1>6. ASSUME TryReserve \/ ReserveError PROVE DeliveryTypeOK'
  <2>1. UNCHANGED <<now, entries, workerCrashes>>
    BY <1>6 DEF TryReserve, ReserveError
  <2>2. /\ at' \in Phases /\ attempt' \in 1 .. MaxStepAttempts
        /\ report' \in {"none", "SUCCESS", "FAILED"} /\ chat' \in 1 .. Chats
        /\ body' \in {{}, body} /\ sending' \in {"none", "SENT", "FAILED"}
    BY <1>6, StepMoves
       DEF TryReserve, ReserveError, Phase, Phases, Kind, Digesting, Ticking
  <2>3. UNCHANGED <<carried, outbox>> \/ Reserve
    BY <1>6 DEF TryReserve, ReserveError
  <2>4. carried' \in Seq(SUBSET (0 .. MaxSlot)) /\ Len(carried') = Len(entries)
    BY <2>3, QueueTypes DEF Reserve
  <2>5. /\ DOMAIN outbox' \subseteq Notices /\ outbox' \in [DOMAIN outbox' -> OutboxRow]
        /\ \A k \in DOMAIN outbox' : k.slot = now
    BY <2>3, OutboxTypes, KeyType DEF Reserve
  <2> QED BY <2>1, <2>2, <2>4, <2>5
<1>7. ASSUME Send PROVE DeliveryTypeOK'
  <2>1. UNCHANGED <<now, entries, carried, workerCrashes>>
    BY <1>7 DEF Send
  <2>2. \E n \in Nat : outbox' = Delivered(n)
    <3>1. 1 .. Tries \subseteq Nat /\ 0 .. Tries \subseteq Nat /\ 0 .. (Tries - 1) \subseteq Nat
      BY ClockTypes
    <3> QED BY <1>7, <3>1 DEF Send
  <2>3. /\ at' \in Phases /\ attempt' \in 1 .. MaxStepAttempts
        /\ report' \in {"none", "SUCCESS", "FAILED"} /\ chat' \in 1 .. Chats
        /\ body' \in {{}, body} /\ sending' \in {"none", "SENT", "FAILED"}
    BY <1>7, StepMoves DEF Send, Phase, Phases, Kind, Digesting, Ticking
  <2>4. DOMAIN outbox' = DOMAIN outbox /\ outbox' \in [DOMAIN outbox -> OutboxRow]
    BY <2>2, OutboxTypes
  <2> QED BY <2>1, <2>3, <2>4
<1>8. ASSUME Record \/ RecordError PROVE DeliveryTypeOK'
  <2>1. UNCHANGED <<now, entries, carried, workerCrashes>> /\ outbox' \in {outbox, Recorded}
    BY <1>8 DEF Record, RecordError
  <2>2. sending # "none"
    BY <1>8 DEF Record, RecordError, TellInv
  <2>3. DOMAIN outbox' = DOMAIN outbox /\ outbox' \in [DOMAIN outbox -> OutboxRow]
    BY <2>1, <2>2, OutboxTypes
  <2> QED BY <1>8, <2>1, <2>3, StepMoves DEF Record, RecordError
<1>9. ASSUME UNCHANGED deliveryVars PROVE DeliveryTypeOK'
  BY <1>9 DEF deliveryVars
<1> QED
  BY <1>1, <1>2, <1>3, <1>4, <1>5, <1>6, <1>7, <1>8, <1>9 DEF DeliveryNext, Cycle

-----------------------------------------------------------------------------
(* The notification cycle: what the outbox and the digests tell. *)

\* Where a step may go: to its next chat, to its end or to its start; there it
\* has nothing in hand to send or to record.
LEMMA StepGoes ==
    ASSUME Raises \/ NextChat \/ \E o \in {"SUCCESS", "FAILED"} : Ends(o)
    PROVE  /\ at' \in {"digest", "ticker", "idle", "digest reserve", "ticker reserve"}
           /\ body' # {} => body' = body /\ at' \in {"digest reserve", "ticker reserve"}
           /\ at' = "ticker reserve" => at \notin Digesting
<1>1. \A o : Ends(o) => at' \in {"ticker", "idle"} /\ body' = {}
  BY DEF Ends
<1>2. CASE Raises /\ ~ Ends("FAILED")
  BY <1>2 DEF Raises, Kind
<1>3. CASE NextChat /\ chat < Chats
  BY <1>3 DEF NextChat, Phase, Kind
<1>4. CASE NextChat /\ ~ (chat < Chats)
  BY <1>1, <1>4 DEF NextChat
<1> QED BY <1>1, <1>2, <1>3, <1>4

\* While a step stays the same kind, so does its key.
LEMMA SameKey ==
    ASSUME UNCHANGED <<now, chat>>, at \in Digesting <=> at' \in Digesting
    PROVE  Key' = Key
BY DEF Key, Kind

\* At the start of nothing, the invariants hold.
LEMMA DeliveryInitTells == DeliveryInit => TellInv /\ DigestInv
BY DEF DeliveryInit, TellInv, DigestInv, Sending, Recording, NoRows, Pending

\* Each row is asked for once, and SENT is no guess, step by step.
LEMMA DeliveryNextTells ==
    DeliveryTypeOK /\ TellInv /\ [DeliveryNext]_deliveryVars => TellInv'
<1> SUFFICES ASSUME DeliveryTypeOK, TellInv, [DeliveryNext]_deliveryVars PROVE TellInv'
  OBVIOUS
<1> DEFINE RowOK(r) == /\ r.calls = 0 => r.copies = 0
                       /\ r.calls <= 1 /\ r.copies <= Tries
                       /\ r.state = "SENT" => r.copies >= 1
<1>0. \A k \in DOMAIN outbox : RowOK(outbox[k]) /\ outbox[k] \in OutboxRow
  BY DEF TellInv, DeliveryTypeOK
<1>a. ASSUME UNCHANGED outbox, at' \in {"down", "digest", "ticker", "idle", "digest reserve", "ticker reserve"}
      PROVE  TellInv'
  BY <1>0, <1>a DEF TellInv, Sending, Recording
<1>1. ASSUME Start \/ Tick PROVE TellInv'
  BY <1>0, <1>1 DEF Start, Tick, OutboxAt, NoRows, TellInv, Sending, Recording
<1>2. ASSUME Crash PROVE TellInv'
  BY <1>2, <1>a DEF Crash
<1>b. ASSUME outbox' = Suppressed,
             at' \in {"digest", "ticker", "idle", "digest reserve", "ticker reserve"}
      PROVE  TellInv'
  <2>1. /\ DOMAIN outbox' = DOMAIN outbox
        /\ \A k \in DOMAIN outbox :
               /\ outbox'[k].calls = outbox[k].calls /\ outbox'[k].copies = outbox[k].copies
               /\ outbox'[k].state \in {outbox[k].state, "SUPPRESSED"}
    BY <1>0, <1>b DEF Suppressed, OutboxRow
  <2>2. \A k \in DOMAIN outbox' : RowOK(outbox'[k])
    BY <1>0, <2>1
  <2> QED BY <1>b, <2>2 DEF TellInv, Sending, Recording
<1>3. ASSUME PopDue \/ PublishTicker \/ QueueError PROVE TellInv'
  <2>1. outbox' \in {outbox, Suppressed}
    BY <1>3 DEF PopDue, PublishTicker, QueueError
  <2>2. at' \in {"digest", "ticker", "idle", "digest reserve", "ticker reserve"}
    BY <1>3, StepGoes DEF PopDue, PublishTicker, QueueError
  <2> QED BY <1>a, <1>b, <2>1, <2>2
<1>4. ASSUME Reserve, ~ Taken(Key)
      PROVE  /\ \A k \in DOMAIN outbox' : RowOK(outbox'[k])
             /\ Key \in DOMAIN outbox' /\ outbox'[Key].calls = 0
  <2>1. RowOK(Reserved) /\ Reserved.calls = 0
    BY ClockTypes DEF Reserved
  <2>2. /\ DOMAIN outbox' = {Key} \cup DOMAIN outbox
        /\ \A k \in DOMAIN outbox' : outbox'[k] = IF k = Key THEN Reserved ELSE outbox[k]
    BY <1>4 DEF Reserve, WithReserved
  <2> QED BY <1>0, <2>1, <2>2
<1>5. ASSUME TryReserve PROVE TellInv'
  <2>1. CASE ~ Taken(Key) /\ Reserve /\ at' = Phase("digest send", "ticker send")
             /\ UNCHANGED <<attempt, report, chat, body, sending>>
    <3>1. Key' = Key
      BY <1>5, <2>1, SameKey DEF TryReserve, Phase, Kind, Digesting
    <3>2. at' \in {"digest send", "ticker send"}
      BY <2>1 DEF Phase
    <3> QED BY <1>4, <2>1, <3>1, <3>2 DEF TellInv, Sending, Recording, Taken
  <2>2. CASE NextChat /\ UNCHANGED <<carried, outbox>>
    BY <2>2, <1>a, StepGoes
  <2> QED BY <1>5, <2>1, <2>2 DEF TryReserve
<1>6. ASSUME ReserveError PROVE TellInv'
  <2>1. at' \in {"digest", "ticker", "idle", "digest reserve", "ticker reserve"}
    BY <1>6, StepGoes DEF ReserveError
  <2>2. CASE UNCHANGED outbox
    BY <1>a, <2>1, <2>2
  <2>3. CASE ~ Taken(Key) /\ Reserve
    BY <1>4, <2>1, <2>3 DEF TellInv, Sending, Recording
  <2> QED BY <1>6, <2>2, <2>3 DEF ReserveError
<1>7. ASSUME Send PROVE TellInv'
  <2>0. /\ Taken(Key) /\ outbox[Key].calls = 0 /\ outbox[Key].copies = 0
        /\ outbox[Key].state \in {"PENDING", "SUPPRESSED", "FAILED"} /\ UNCHANGED now
    <3>1. Taken(Key) /\ outbox[Key].calls = 0 /\ UNCHANGED now
      BY <1>7 DEF Send, TellInv
    <3>2. RowOK(outbox[Key]) /\ outbox[Key] \in OutboxRow
      BY <1>0, <3>1 DEF Taken
    <3> QED BY <3>1, <3>2 DEF OutboxRow
  <2>1. ASSUME NEW n \in 0 .. Tries, outbox' = Delivered(n)
        PROVE  /\ DOMAIN outbox' = DOMAIN outbox
               /\ \A k \in DOMAIN outbox' : RowOK(outbox'[k])
               /\ outbox'[Key].copies = n
    <3>1. n \in Nat /\ n <= Tries
      BY ClockTypes
    <3>2. /\ DOMAIN outbox' = DOMAIN outbox
          /\ \A k \in DOMAIN outbox : k # Key => outbox'[k] = outbox[k]
          /\ outbox'[Key].calls = 0 + 1 /\ outbox'[Key].copies = 0 + n
          /\ outbox'[Key].state = outbox[Key].state
      BY <1>0, <2>0, <2>1 DEF Delivered, Taken, OutboxRow
    <3> QED BY <1>0, <2>0, <3>1, <3>2
  <2>2. ASSUME NEW n \in 0 .. Tries, outbox' = Delivered(n), sending' \in {"SENT", "FAILED"},
               sending' = "SENT" => n >= 1,
               at' = Phase("digest record", "ticker record"), UNCHANGED chat
        PROVE  TellInv'
    <3>1. Key' = Key
      BY <1>7, <2>0, <2>2, SameKey DEF Send, Sending, Phase, Kind, Digesting
    <3>2. at' \in {"digest record", "ticker record"}
      BY <2>2 DEF Phase
    <3> QED BY <2>0, <2>1, <2>2, <3>1, <3>2 DEF TellInv, Sending, Recording, Taken
  <2>3. ASSUME NEW n \in 0 .. Tries, outbox' = Delivered(n), Raises
        PROVE  TellInv'
    <3>1. at' \in {"digest", "ticker", "idle", "digest reserve", "ticker reserve"}
      BY <2>3, StepGoes
    <3> QED BY <2>1, <2>3, <3>1 DEF TellInv, Sending, Recording
  <2>4. CASE \E n \in 1 .. Tries : /\ outbox' = Delivered(n) /\ sending' = "SENT"
                                   /\ at' = Phase("digest record", "ticker record")
                                   /\ UNCHANGED <<attempt, report, chat, body>>
    <3>1. PICK n \in 1 .. Tries : /\ outbox' = Delivered(n) /\ sending' = "SENT"
                                  /\ at' = Phase("digest record", "ticker record")
                                  /\ UNCHANGED chat
      BY <2>4
    <3>2. n \in 0 .. Tries /\ n >= 1
      BY ClockTypes
    <3> QED BY <2>2, <3>1, <3>2
  <2>5. CASE \E n \in 0 .. Tries : /\ outbox' = Delivered(n) /\ sending' = "FAILED"
                                   /\ at' = Phase("digest record", "ticker record")
                                   /\ UNCHANGED <<attempt, report, chat, body>>
    BY <2>2, <2>5
  <2>6. CASE \E n \in 0 .. (Tries - 1) : outbox' = Delivered(n) /\ Raises
    <3>1. 0 .. (Tries - 1) \subseteq 0 .. Tries
      BY ClockTypes
    <3> QED BY <2>3, <2>6, <3>1
  <2> QED BY <1>7, <2>4, <2>5, <2>6 DEF Send
<1>8. ASSUME Record \/ RecordError PROVE TellInv'
  <2>1. at' \in {"digest", "ticker", "idle", "digest reserve", "ticker reserve"}
    BY <1>8, StepGoes DEF Record, RecordError
  <2>2. Taken(Key) /\ (sending = "SENT" => outbox[Key].copies >= 1)
    BY <1>8 DEF Record, RecordError, TellInv
  <2>3. CASE UNCHANGED outbox
    BY <1>a, <2>1, <2>3
  <2>4. CASE outbox' = Recorded
    <3>1. /\ DOMAIN outbox' = DOMAIN outbox
          /\ \A k \in DOMAIN outbox : k # Key => outbox'[k] = outbox[k]
          /\ outbox'[Key].state = sending
          /\ outbox'[Key].calls = outbox[Key].calls /\ outbox'[Key].copies = outbox[Key].copies
      BY <1>0, <2>2, <2>4 DEF Recorded, Taken, OutboxRow
    <3>2. \A k \in DOMAIN outbox' : RowOK(outbox'[k])
      BY <1>0, <2>2, <3>1 DEF Taken
    <3> QED BY <2>1, <3>2 DEF TellInv, Sending, Recording
  <2> QED BY <1>8, <2>3, <2>4 DEF Record, RecordError
<1>9. ASSUME UNCHANGED deliveryVars PROVE TellInv'
  BY <1>9 DEF deliveryVars, TellInv, Sending, Recording, Taken, Key, Kind
<1> QED
  BY <1>1, <1>2, <1>3, <1>5, <1>6, <1>7, <1>8, <1>9 DEF DeliveryNext, Cycle

\* An entry is told in one digest at most, step by step.
LEMMA DeliveryNextDigest ==
    DeliveryTypeOK /\ DigestInv /\ [DeliveryNext]_deliveryVars => DigestInv'
<1> SUFFICES ASSUME DeliveryTypeOK, DigestInv, [DeliveryNext]_deliveryVars PROVE DigestInv'
  OBVIOUS
<1>0. /\ DOMAIN entries = 1 .. Len(entries) /\ DOMAIN carried = DOMAIN entries
      /\ Len(entries) \in Nat /\ body \subseteq DOMAIN entries /\ now \in 0 .. MaxSlot
  BY DEF DeliveryTypeOK
<1>a. ASSUME UNCHANGED <<now, entries, carried>>, body' \in {{}, body},
             body' # {} => at' \in {"digest reserve", "digest send", "digest record"}
      PROVE  DigestInv'
  BY <1>a DEF DigestInv, Pending
<1>b. ASSUME UNCHANGED <<now, entries, carried>>,
             Raises \/ NextChat \/ \E o \in {"SUCCESS", "FAILED"} : Ends(o)
      PROVE  DigestInv'
  BY <1>a, <1>b, StepGoes DEF DigestInv, Digesting
<1>c. ASSUME Queued, UNCHANGED now, body' = {}
      PROVE  DigestInv'
  <2>1. /\ entries' = Append(entries, "PENDING") /\ carried' = Append(carried, {})
        /\ entries \in Seq({"PENDING", "SUPPRESSED"}) /\ carried \in Seq(SUBSET (0 .. MaxSlot))
        /\ Len(carried) = Len(entries)
    BY <1>c DEF Queued, DeliveryTypeOK
  <2>2. /\ DOMAIN entries' = 1 .. (Len(entries) + 1)
        /\ \A e \in 1 .. Len(entries) : entries'[e] = entries[e] /\ carried'[e] = carried[e]
        /\ carried'[Len(entries) + 1] = {}
    BY <1>0, <2>1
  <2>3. \A e \in DOMAIN entries' : e \in DOMAIN entries \/ e = Len(entries) + 1
    BY <1>0, <2>2
  <2>4. \A e \in Pending' : carried'[e] = {}
    BY <1>0, <2>2, <2>3 DEF DigestInv, Pending
  <2>5. \A e \in DOMAIN entries' : \E t \in 0 .. MaxSlot : carried'[e] \subseteq {t}
    BY <1>0, <2>2, <2>3 DEF DigestInv
  <2> QED BY <1>c, <2>4, <2>5 DEF DigestInv
<1>d. ASSUME entries' = Marked, UNCHANGED <<now, carried>>,
             body' = {} \/ (body' = Pending /\ at' = "digest reserve")
      PROVE  DigestInv'
  <2>1. /\ DOMAIN entries' = DOMAIN entries
        /\ \A e \in DOMAIN entries : entries'[e] # "PENDING"
    BY <1>d DEF Marked, Pending
  <2>2. Pending' = {}
    BY <2>1 DEF Pending
  <2>3. \A e \in body' : carried'[e] = {}
    BY <1>d DEF DigestInv
  <2> QED BY <1>d, <2>1, <2>2, <2>3 DEF DigestInv
<1>1. ASSUME Start \/ Tick PROVE DigestInv'
  <2>1. body = {} /\ UNCHANGED <<body, entries, carried>>
    BY <1>1 DEF Start, Tick, DigestInv
  <2> QED BY <2>1 DEF DigestInv, Pending
<1>2. ASSUME Crash PROVE DigestInv'
  BY <1>2, <1>a DEF Crash
<1>3. ASSUME PopDue PROVE DigestInv'
  <2>1. CASE Ends("SUCCESS") /\ UNCHANGED <<now, entries, carried>>
    BY <1>b, <2>1
  <2>2. CASE Ends("SUCCESS") /\ entries' = Marked /\ UNCHANGED <<now, carried>>
    BY <1>d, <2>2 DEF Ends
  <2>3. CASE body' = Pending /\ at' = "digest reserve" /\ entries' = Marked
             /\ UNCHANGED <<now, carried>>
    BY <1>d, <2>3
  <2> QED BY <1>3, <2>1, <2>2, <2>3 DEF PopDue
<1>4. ASSUME PublishTicker PROVE DigestInv'
  <2>1. CASE Ends("SUCCESS") /\ UNCHANGED <<entries, carried>>
    BY <1>4, <1>b, <2>1 DEF PublishTicker
  <2>2. CASE Ends("SUCCESS") /\ Queued
    BY <1>4, <1>c, <2>2 DEF PublishTicker, Ends
  <2>3. CASE at' = "ticker reserve" /\ UNCHANGED <<body, entries, carried>>
    BY <1>4, <2>3 DEF PublishTicker, DigestInv, Pending
  <2> QED BY <1>4, <2>1, <2>2, <2>3 DEF PublishTicker
<1>5. ASSUME QueueError PROVE DigestInv'
  <2>1. Raises /\ UNCHANGED now
    BY <1>5 DEF QueueError
  <2>2. body' = {}
    BY <2>1 DEF Raises, Ends
  <2> QED BY <1>5, <1>b, <1>c, <1>d, <2>1, <2>2 DEF QueueError
<1>6. ASSUME TryReserve \/ ReserveError PROVE DigestInv'
  <2>1. UNCHANGED <<now, entries>>
    BY <1>6 DEF TryReserve, ReserveError
  <2>2. CASE UNCHANGED carried
    <3>1. NextChat \/ Raises \/ (at' = Phase("digest send", "ticker send") /\ UNCHANGED body)
      BY <1>6 DEF TryReserve, ReserveError
    <3>2. CASE NextChat \/ Raises
      BY <1>b, <2>1, <2>2, <3>2
    <3>3. CASE at' = Phase("digest send", "ticker send") /\ UNCHANGED body
      BY <1>a, <2>1, <2>2, <3>3 DEF Phase, Kind, DigestInv, Digesting
    <3> QED BY <3>1, <3>2, <3>3
  <2>3. CASE Reserve
    <3>1. /\ DOMAIN carried' = DOMAIN entries
          /\ \A e \in DOMAIN entries :
                 carried'[e] = IF e \in body THEN carried[e] \cup {now} ELSE carried[e]
      BY <2>3 DEF Reserve, Carried
    <3>2. body' \in {{}, body} /\ (body' # {} => at' \in {"digest reserve", "digest send"})
      <4>1. CASE Raises
        BY <4>1, StepGoes DEF Raises, Ends
      <4>2. CASE at' = Phase("digest send", "ticker send") /\ UNCHANGED body
        BY <4>2 DEF Phase, Kind, DigestInv, Digesting
      <4>3. CASE NextChat /\ UNCHANGED <<carried, outbox>>
        BY <4>3, StepGoes DEF DigestInv, Digesting
      <4> QED BY <1>6, <4>1, <4>2, <4>3 DEF TryReserve, ReserveError
    <3>3. \A e \in Pending : e \notin body
      BY DEF DigestInv
    <3>4. \A e \in body : carried'[e] \subseteq {now}
      BY <1>0, <3>1 DEF DigestInv
    <3>5. \A e \in DOMAIN entries : \E t \in 0 .. MaxSlot : carried'[e] \subseteq {t}
      BY <1>0, <3>1, <3>4 DEF DigestInv
    <3>6. Pending' = Pending /\ Pending \subseteq DOMAIN entries
      BY <2>1 DEF Pending
    <3> QED BY <1>0, <2>1, <3>1, <3>2, <3>3, <3>4, <3>5, <3>6 DEF DigestInv
  <2> QED BY <1>6, <2>2, <2>3 DEF TryReserve, ReserveError
<1>7. ASSUME Send PROVE DigestInv'
  <2>1. UNCHANGED <<now, entries, carried>>
    BY <1>7 DEF Send
  <2>2. Raises \/ (at' = Phase("digest record", "ticker record") /\ UNCHANGED body)
    BY <1>7 DEF Send
  <2>3. CASE Raises
    BY <1>b, <2>1, <2>3
  <2>4. CASE at' = Phase("digest record", "ticker record") /\ UNCHANGED body
    BY <1>a, <2>1, <2>4 DEF Phase, Kind, DigestInv, Digesting
  <2> QED BY <2>2, <2>3, <2>4
<1>8. ASSUME Record \/ RecordError PROVE DigestInv'
  BY <1>8, <1>b DEF Record, RecordError
<1>9. ASSUME UNCHANGED deliveryVars PROVE DigestInv'
  BY <1>9 DEF deliveryVars, DigestInv, Pending
<1> QED
  BY <1>1, <1>2, <1>3, <1>4, <1>5, <1>6, <1>7, <1>8, <1>9 DEF DeliveryNext, Cycle

\* The three hold together.
LEMMA DeliveryInvariant == DeliverySpec => [](DeliveryTypeOK /\ TellInv /\ DigestInv)
<1>1. DeliveryInit => DeliveryTypeOK /\ TellInv /\ DigestInv
  BY DeliveryInitTypeOK, DeliveryInitTells
<1>2. DeliveryTypeOK /\ TellInv /\ DigestInv /\ [DeliveryNext]_deliveryVars
          => (DeliveryTypeOK /\ TellInv /\ DigestInv)'
  BY DeliveryNextTypeOK, DeliveryNextTells, DeliveryNextDigest
<1> QED BY <1>1, <1>2, PTL DEF DeliverySpec

\* What holds of the rows and of the queue is what the owner is promised.
LEMMA OneCallFollows == DeliveryTypeOK /\ TellInv /\ DigestInv => OneCallOneDigest
<1> SUFFICES ASSUME DeliveryTypeOK, TellInv, DigestInv PROVE OneCallOneDigest
  OBVIOUS
<1>1. AskedOnce /\ SentIsTrue
  BY DEF TellInv, AskedOnce, SentIsTrue
<1>2. ASSUME NEW e \in DOMAIN entries PROVE Cardinality(carried[e]) <= 1
  <2>1. PICK t \in 0 .. MaxSlot : carried[e] \subseteq {t}
    BY DEF DigestInv
  <2>2. carried[e] = {} \/ carried[e] = {t}
    BY <2>1
  <2>3. Cardinality({}) = 0 /\ Cardinality({t}) = 1
    BY FS_EmptySet, FS_Singleton
  <2> QED BY <2>2, <2>3
<1> QED BY <1>1, <1>2 DEF OneCallOneDigest, ToldInOneDigest

\* The notification cycle keeps its types (DeliveryTypeOK), for any hours,
\* chats and tries.
THEOREM NotificationTypes == DeliverySpec => []DeliveryTypeOK
BY DeliveryInvariant, PTL

\* A queued signal goes into one digest, a reserved notification is put to the
\* messenger in one call (which may leave up to Tries copies), and SENT is no
\* guess (try_reserve, pop_due, run_with_retry), whatever raises and whenever
\* the worker dies.
THEOREM NotificationOneCall == DeliverySpec => []OneCallOneDigest
BY DeliveryInvariant, OneCallFollows, PTL

-----------------------------------------------------------------------------
(* The worker process. *)

\* The session lock while the loops run: a process that is down runs none, and
\* one that runs some with its session whole is the one that holds the lock.
WorkerLockInv ==
    \A c \in Containers :
        /\ phase[c] = "down" => running[c] = {}
        /\ running[c] # {} /\ c \notin severed => lockedBy = c

\* The worker processes keep their types and the lock, step by step.
LEMMA WorkerNextInv ==
    WorkerProcessTypeOK /\ WorkerLockInv /\ [WorkerProcessNext]_workerProcessVars
        => (WorkerProcessTypeOK /\ WorkerLockInv)'
<1> SUFFICES ASSUME WorkerProcessTypeOK, WorkerLockInv, [WorkerProcessNext]_workerProcessVars
             PROVE  (WorkerProcessTypeOK /\ WorkerLockInv)'
  OBVIOUS
<1> USE DEF WorkerProcessTypeOK, WorkerLockInv
<1>1. ASSUME NEW c \in Containers, WorkerStarts(c) PROVE (WorkerProcessTypeOK /\ WorkerLockInv)'
  BY <1>1, WorkerProcessAssumption DEF WorkerStarts
<1>2. ASSUME NEW c \in Containers, SupervisorWakes(c) \/ Terminated(c)
      PROVE  (WorkerProcessTypeOK /\ WorkerLockInv)'
  BY <1>2 DEF SupervisorWakes, Terminated, AskToStop
<1>3. ASSUME NEW c \in Containers, GraceEnds(c) PROVE (WorkerProcessTypeOK /\ WorkerLockInv)'
  BY <1>3 DEF GraceEnds
<1>4. ASSUME NEW c \in Containers, Unlocks(c) PROVE (WorkerProcessTypeOK /\ WorkerLockInv)'
  BY <1>4 DEF Unlocks, Freed, Gone
<1>5. ASSUME NEW c \in Containers, WorkerKilled(c) PROVE (WorkerProcessTypeOK /\ WorkerLockInv)'
  BY <1>5 DEF WorkerKilled, Gone
<1>6. ASSUME NEW c \in Containers, SessionEnds(c) PROVE (WorkerProcessTypeOK /\ WorkerLockInv)'
  BY <1>6, WorkerProcessAssumption DEF SessionEnds
<1>7. ASSUME NEW c \in Containers, NEW l \in Loops, LoopEnds(c, l)
      PROVE  (WorkerProcessTypeOK /\ WorkerLockInv)'
  BY <1>7 DEF LoopEnds
<1>8. ASSUME UNCHANGED workerProcessVars PROVE (WorkerProcessTypeOK /\ WorkerLockInv)'
  BY <1>8 DEF workerProcessVars
<1> QED
  BY <1>1, <1>2, <1>3, <1>4, <1>5, <1>6, <1>7, <1>8 DEF WorkerProcessNext

\* All processes are down at first.
LEMMA WorkerInitInv == WorkerProcessInit => WorkerProcessTypeOK /\ WorkerLockInv
BY DEF WorkerProcessInit, WorkerProcessTypeOK, WorkerLockInv

\* Types and lock hold together.
LEMMA WorkerInvariant == WorkerProcessSpec => [](WorkerProcessTypeOK /\ WorkerLockInv)
BY WorkerInitInv, WorkerNextInv, PTL DEF WorkerProcessSpec

\* Whoever runs with its session whole holds the lock, and only one holds it.
LEMMA OneRunsFollows == WorkerProcessTypeOK /\ WorkerLockInv => OneRunsCycles
<1> SUFFICES ASSUME WorkerProcessTypeOK, WorkerLockInv PROVE OneRunsCycles
  OBVIOUS
<1>1. Working \ severed \subseteq {lockedBy}
  BY DEF Working, WorkerLockInv
<1>2. Working \ severed = {} \/ Working \ severed = {lockedBy}
  BY <1>1
<1>3. Cardinality({}) = 0 /\ Cardinality({lockedBy}) = 1
  BY FS_EmptySet, FS_Singleton
<1> QED BY <1>2, <1>3 DEF OneRunsCycles

\* The worker processes keep their types (WorkerProcessTypeOK).
THEOREM WorkerTypes == WorkerProcessSpec => []WorkerProcessTypeOK
BY WorkerInvariant, PTL

\* Of any number of processes whose session is whole, one runs its loops at
\* most (single_worker_lock, worker_supervisor), whatever fails or is killed.
THEOREM WorkerRunsAlone == WorkerProcessSpec => []OneRunsCycles
BY WorkerInvariant, OneRunsFollows, PTL

-----------------------------------------------------------------------------
(* The two beside the others that settle. *)

\* In the composition too, what one must do is not done by two (DoneByOne): a
\* notification has one call, a signal one digest, and of the worker processes
\* whose session is whole one runs its loops. A step of it is a step of the
\* notification cycle, of the worker processes, or of one that leaves both alone.
THEOREM SettlingDoneByOne == SettlingSpec => []DoneByOne
<1> DEFINE Inv == /\ DeliveryTypeOK /\ TellInv /\ DigestInv
                  /\ WorkerProcessTypeOK /\ WorkerLockInv
<1>1. SettlingInit => Inv
  BY DeliveryInitTypeOK, DeliveryInitTells, WorkerInitInv DEF SettlingInit
<1>2. Inv /\ [SettlingNext]_SettlingVars => Inv'
  <2>1. [SettlingNext]_SettlingVars
            => [DeliveryNext]_deliveryVars /\ [WorkerProcessNext]_workerProcessVars
    BY DEF SettlingNext, SettlingVars
  <2> QED
    BY <2>1, DeliveryNextTypeOK, DeliveryNextTells, DeliveryNextDigest, WorkerNextInv
<1>3. Inv => DoneByOne
  BY OneCallFollows, OneRunsFollows DEF DoneByOne
<1> HIDE DEF Inv
<1> QED BY <1>1, <1>2, <1>3, PTL DEF SettlingSpec
-----------------------------------------------------------------------------
(* PackagePublication: what rows, worker and request know of each other.   *)

\* The states of a package nobody has published anything of, and of a
\* publication the worker still moves.
Early == {"proposed", "rejected", "approved", "invalidated"}
Open == {"pending", "running"}

\* The package has a publication from its approval on; the approved tree is the
\* signed one, and a package invalidated under an open publication has another.
RowsInv ==
    /\ publication.state = "none" <=> package.state \in {"proposed", "rejected"}
    /\ publication.state = "none" => publication.tree = NoTree
    /\ package.state = "approved" => package.tree = publication.tree
    /\ package.state = "invalidated" /\ publication.state \in Open =>
           package.tree # publication.tree

\* What was read by a request: a row that only a request can change is still
\* that row, and the publication it read is the one there is.
RequestInv ==
    request # NoRequest =>
        /\ request.op \in {"approve", "reject"} => request.package.state = "proposed"
        /\ request.op = "replace" => request.package.state \in {"proposed", "approved"}
        /\ request.op = "cancel" => request.package.state = "approved"
        /\ request.op = "resume" => request.package.state \in {"partially_published", "verifying"}
        /\ request.package.state \in {"proposed", "rejected", "invalidated"} =>
               request.package = package
        /\ request.package.state = "approved" =>
               request.package = package \/ package.state \notin Early
        /\ request.package.state \notin {"proposed", "rejected"} =>
               publication.state # "none" /\ request.publication.tree = publication.tree
        /\ request.package.state \notin Early => package.state \notin Early
        /\ request.publication.state = "completed" => publication.state = "completed"

\* What the worker holds: the publication it works on is the one there is; it
\* holds its lock while the package is early; and what it is about to send, or
\* has sent, is of the signed tree.
WorkerInv ==
    worker # Idle =>
        /\ publication.state # "none" /\ worker.publication.tree = publication.tree
        /\ package.state \in Early => worker.locked /\ publication.state \in Open
                                          /\ ~worker.proposal
        /\ worker.began =>
               /\ worker.locked /\ worker.package.state = "publishing"
               /\ package.state = "approved"
        /\ worker.pc = "read" => ~worker.began /\ worker.locked /\ ~worker.proposal
        /\ worker.pc = "read" /\ worker.package.state = "approved" =>
               package.state \in {"approved", "invalidated"}
        /\ worker.pc = "begun" => worker.locked
        /\ (\/ worker.pc = "begun" /\ ~worker.began
            \/ worker.pc = "read" /\ worker.package.state # "approved")
              => package.state \notin Early \/ worker.package.tree # publication.tree
        /\ worker.pc = "gated" => package.state \notin Early /\ Cursor \notin Uploads
        /\ worker.pc \in {"gated", "sent"} => worker.package.tree = publication.tree
        /\ worker.pc = "answered" /\ worker.outcome = "done" => remote[Cursor] # NoTree

\* Every step before a cursor, the row's or one that was read, is done; what is
\* done, or executed, is on the platform; and what is early has no proposal.
StepsInv ==
    /\ \A i \in 1..(publication.cursor - 1) : Done(i)
    /\ worker # Idle => \A i \in 1..(Cursor - 1) : Done(i)
    /\ request # NoRequest => \A i \in 1..(request.publication.cursor - 1) : Done(i)
    /\ \A i \in StepIndexes : Done(i) \/ attempts[i] = "executed" => remote[i] # NoTree
    /\ package.state \in Early => \A i \in StepIndexes : ~steps[i].proposal

\* Nothing visible has been sent for a package that is early.
EarlyInv ==
    package.state \in Early =>
        \A i \in Visible :
            remote[i] = NoTree /\ sends[i] = 0 /\ \A t \in Trees : <<i, t>> \notin travelling
PromisedInv == promised => package.state = "invalidated"

SagaInv ==
    /\ RowsInv /\ RequestInv /\ WorkerInv /\ StepsInv /\ EarlyInv /\ PromisedInv
    /\ SignedTreeInOrder


-----------------------------------------------------------------------------
(* PackagePublication: what its operators do, and types. *)

\* The plan has at least two steps.
LEMMA PlanHasSteps ==
    /\ Len(Plan) \in Nat /\ Len(Plan) > 1 /\ NoTree \notin Trees
    /\ OwnerOps \subseteq Requests
BY PlanAssumption

\* A publication's row says whether its cursor is still in the plan, and goes on
\* saying it when its state is set to another than completed.
LEMMA PublicationFields ==
    ASSUME NEW r \in PublicationRow
    PROVE  /\ r.state \in PublicationStates /\ r.tree \in Trees \cup {NoTree}
           /\ r.cursor \in Nat
           /\ r.state # "completed" => r \in OngoingRow /\ r.cursor \in StepIndexes
           /\ r.state = "completed" => r.cursor = Len(Plan) + 1
           /\ \A s : /\ [r EXCEPT !.state = s].state = s
                     /\ [r EXCEPT !.state = s].cursor = r.cursor
                     /\ [r EXCEPT !.state = s].tree = r.tree
           /\ r.state # "completed" =>
                  \A s \in PublicationStates \ {"completed"} : [r EXCEPT !.state = s] \in OngoingRow
<1>1. StepIndexes \subseteq Nat /\ Len(Plan) + 1 \in Nat
  BY PlanHasSteps DEF StepIndexes
<1>2. CASE r \in OngoingRow
  BY <1>1, <1>2 DEF OngoingRow
<1>3. CASE r \in CompletedRow
  BY <1>1, <1>3 DEF CompletedRow, PublicationStates
<1> QED
  BY <1>2, <1>3 DEF PublicationRow

\* The steps before a cursor are steps of the plan.
LEMMA BeforeCursor ==
    ASSUME NEW r \in PublicationRow
    PROVE  1..(r.cursor - 1) \subseteq StepIndexes
<1>1. r.cursor \in StepIndexes \/ r.cursor = Len(Plan) + 1
  BY PublicationFields
<1> QED
  BY <1>1, PlanHasSteps DEF StepIndexes

\* A tick under way is not Idle, and says all that a tick says.
LEMMA TickUnderWay ==
    ASSUME worker \in WorkerState
    PROVE  /\ worker # Idle <=> worker.pc # "idle"
           /\ worker # Idle => worker \in Ticks
           /\ worker.pc \in Stages \cup {"idle"}
BY DEF WorkerState, Ticks, Idle, Stages

\* An outcome that may be filed is one a row has, and no outcome is filed over
\* one that is done.
LEMMA FiledIsAStep ==
    ASSUME NEW i \in StepIndexes, steps[i] \in StepRow, NEW outcome \in Outcomes,
           FilingAdmitted(i, outcome)
    PROVE  /\ Filed(i, outcome) \in StepStates \ {"running"}
           /\ steps[i].state # "done"
           /\ Filed(i, outcome) = "done" => outcome = "done"
           /\ outcome = "done" => Filed(i, outcome) = "done"
<1>1. steps[i].state \in {"absent", "pending", "done", "failed", "unknown", "blocked"}
  BY DEF StepRow, StepStates
<1>2. outcome \in {"none", "done", "failed", "unknown", "blocked"}
  BY DEF Outcomes
<1> DEFINE old == IF steps[i].state = "absent" THEN "pending" ELSE steps[i].state
           target == Filed(i, outcome)
<1>3. StepTransitions["done"] = {} /\ "none" \notin StepTransitions[old] /\ old # "none"
  BY <1>1 DEF StepTransitions, StepStates
<1>4. target \in {"none", "done", "failed", "unknown", "blocked"}
      /\ (target = "done" <=> outcome = "done") /\ (target = "none" <=> outcome = "none")
  BY <1>2 DEF Filed
<1>5. IF target \in {"done", "unknown"} /\ old # "unknown"
      THEN StepGuard(i, old, "running") /\ StepGuard(i, "running", target)
      ELSE StepGuard(i, old, target)
  BY DEF FilingAdmitted
<1>6. old \in {"pending", "done", "failed", "unknown", "blocked"}
      /\ (steps[i].state = "done" <=> old = "done")
  BY <1>1
<1> HIDE DEF old
<1>7. target # "none" /\ old # "done"
  <2> HIDE DEF target
  <2>1. CASE target \in {"done", "unknown"} /\ old # "unknown"
    BY <1>3, <1>5, <2>1 DEF StepGuard
  <2>2. CASE ~(target \in {"done", "unknown"} /\ old # "unknown")
    <3>1. StepGuard(i, old, target)
      BY <1>5, <2>2
    <3> QED
      BY <1>3, <1>4, <2>2, <3>1 DEF StepGuard
  <2> QED
    BY <2>1, <2>2
<1> QED
  BY <1>4, <1>6, <1>7 DEF StepStates

\* The states of a package after it was published, or could be.
Late == {"publishing", "verifying", "published", "partially_published", "failed"}

\* What the trigger lets a package become, but for a row proposed again after it
\* failed: an early one stays early or is published, and a late one stays late.
LEMMA PackageMoved ==
    ASSUME NEW from \in PackageStates, NEW to \in PackageStates, PackageMoves(from, to)
    PROVE  /\ from \in Late => to \in Late \cup {"proposed"}
           /\ from = "invalidated" => to = "invalidated"
           /\ from = "rejected" => to = "rejected"
           /\ from = "proposed" => to \in {"proposed", "approved", "rejected"}
           /\ from = "approved" /\ to \in Late => to = "publishing"
           /\ from \in Late <=> from \notin Early
           /\ to \in Late <=> to \notin Early
BY DEF PackageMoves, PackageTransitions, PackageStates, Late, Early

\* What a request wants to write are rows, if the database lets it: a publication
\* it read completed still is, and is not set to another state.
LEMMA RequestedRows ==
    ASSUME SagaTypeOK, RequestInv, request # NoRequest, PublicationGuard(RequestedPublication)
    PROVE  RequestedPackage \subseteq PackageRow /\ RequestedPublication \in PublicationRow
<1>1. /\ request.op \in Requests /\ request.package \in PackageRow
      /\ request.publication \in PublicationRow
  BY PlanHasSteps DEF SagaTypeOK, RequestState
<1>2. package \in PackageRow /\ publication \in PublicationRow /\ 1 \in StepIndexes
  BY PlanHasSteps DEF SagaTypeOK, StepIndexes
<1>3. {"approved", "rejected", "invalidated", "proposed", "publishing"} \subseteq PackageStates
      /\ {"pending", "halted", "running"} \subseteq PublicationStates
  BY DEF PackageStates, PublicationStates
<1>4. ASSUME NEW state \in PackageStates
      PROVE  /\ [request.package EXCEPT !.state = state] \in PackageRow
             /\ \A t \in Trees : [state |-> state, tree |-> t] \in PackageRow
  BY <1>1 DEF PackageRow
<1>5. ASSUME request.op \in {"cancel", "resume"}
      PROVE  request.publication \in OngoingRow
  <2>1. RequestedPublication.state \in {"halted", "running"}
    BY <1>1, <1>5, PublicationFields DEF RequestedPublication
  <2>2. publication.state # "completed"
    BY <2>1 DEF PublicationGuard, PublicationTransitions, PublicationStates
  <2> QED
    BY <1>1, <1>5, <2>2, PublicationFields DEF RequestInv
<1>6. RequestedPackage \subseteq PackageRow
  BY <1>1, <1>2, <1>3, <1>4 DEF RequestedPackage, Requests
<1>7. RequestedPublication \in PublicationRow
  <2>1. CASE request.op \in {"cancel", "resume"}
    <3>1. {"halted", "running"} \subseteq PublicationStates \ {"completed"}
      BY DEF PublicationStates
    <3>2. \A s \in {"halted", "running"} : [request.publication EXCEPT !.state = s] \in OngoingRow
      BY <1>5, <2>1, <3>1 DEF OngoingRow
    <3> QED
      BY <2>1, <3>2 DEF RequestedPublication, PublicationRow
  <2>2. CASE request.op = "approve"
    <3>1. [state |-> "pending", cursor |-> 1, tree |-> request.package.tree] \in OngoingRow
      BY <1>1, <1>2, <1>3 DEF OngoingRow, PackageRow
    <3> QED
      BY <2>2, <3>1 DEF RequestedPublication, PublicationRow
  <2>3. CASE request.op \notin {"cancel", "resume", "approve"}
    BY <1>2, <2>3 DEF RequestedPublication
  <2> QED
    BY <2>1, <2>2, <2>3
<1> QED
  BY <1>6, <1>7

\* At first there is a proposed package and nothing else.
LEMMA SagaInitInv == SagaInit => SagaTypeOK /\ SagaInv
<1> SUFFICES ASSUME SagaInit PROVE SagaTypeOK /\ SagaInv
  OBVIOUS
<1>1. PICK t \in Trees : package = [state |-> "proposed", tree |-> t]
  BY DEF SagaInit
<1>2. 1 \in StepIndexes
  BY PlanHasSteps DEF StepIndexes
<1>3. SagaTypeOK
  <2>1. package \in PackageRow /\ publication \in PublicationRow
    BY <1>1, <1>2
       DEF SagaInit, PackageRow, PackageStates, PublicationRow, OngoingRow, PublicationStates
  <2>2. steps \in [StepIndexes -> StepRow] /\ worker \in WorkerState /\ request \in RequestState
    BY DEF SagaInit, StepRow, StepStates, WorkerState, RequestState
  <2>3. /\ attempts \in [StepIndexes -> {"none", "claimed", "running", "unknown", "executed",
                                     "failed", "blocked"}]
        /\ remote \in [StepIndexes -> Trees \cup {NoTree}] /\ sends \in [StepIndexes -> Nat]
    BY DEF SagaInit
  <2> QED
    BY <2>1, <2>2, <2>3 DEF SagaInit, SagaTypeOK
<1>4. SagaInv
  <2>1. RowsInv /\ RequestInv /\ WorkerInv /\ PromisedInv
    BY <1>1 DEF SagaInit, RowsInv, RequestInv, WorkerInv, PromisedInv, Open
  <2>2. StepsInv
    BY <1>1 DEF SagaInit, StepsInv, Done
  <2>3. EarlyInv /\ SignedTreeInOrder
    BY PlanHasSteps DEF SagaInit, EarlyInv, SignedTreeInOrder, Visible
  <2> QED
    BY <2>1, <2>2, <2>3 DEF SagaInv
<1> QED
  BY <1>3, <1>4

-----------------------------------------------------------------------------
(* PackagePublication: the steps around the tick. *)

\* A request reads, or fails: nothing but the request changes.
LEMMA RequestReadsKeeps ==
    ASSUME SagaTypeOK, SagaInv, (\E op \in OwnerOps : RequestReads(op)) \/ RequestFails
    PROVE  SagaTypeOK' /\ SagaInv'
<1>1. UNCHANGED <<package, publication, steps, attempts, registered, worker, promised, crashes,
                  worldVars>>
  BY DEF RequestReads, RequestFails
<1>2. /\ request' \in RequestState
      /\ request' # NoRequest =>
            /\ request'.package = package /\ request'.publication = publication
            /\ request'.op \in {"approve", "reject"} => package.state = "proposed"
            /\ request'.op = "replace" => package.state \in {"proposed", "approved"}
            /\ request'.op = "cancel" => package.state = "approved"
            /\ request'.op = "resume" => package.state \in {"partially_published", "verifying"}
  <2>1. CASE RequestFails
    BY <2>1 DEF RequestFails, RequestState
  <2>2. ASSUME NEW op \in OwnerOps, RequestReads(op)
        PROVE  <1>2!1 /\ <1>2!2
    <3>1. request' = [op |-> op, package |-> package, publication |-> publication]
          /\ MayRequest(op) /\ op \in Requests
      BY <2>2, PlanHasSteps DEF RequestReads
    <3>2. request' \in RequestState
      BY <3>1 DEF SagaTypeOK, RequestState
    <3>3. /\ op \in {"approve", "reject"} => package.state = "proposed"
          /\ op = "replace" => package.state \in {"proposed", "approved"}
          /\ op = "cancel" => package.state = "approved"
          /\ op = "resume" => package.state \in {"partially_published", "verifying"}
      BY <3>1 DEF MayRequest, Requests
    <3> QED
      BY <3>1, <3>2, <3>3
  <2> QED
    BY <2>1, <2>2
<1>3. SagaTypeOK'
  BY <1>1, <1>2 DEF SagaTypeOK, worldVars
<1>4. RowsInv' /\ WorkerInv' /\ EarlyInv' /\ PromisedInv' /\ SignedTreeInOrder'
  <2>1. RowsInv' /\ EarlyInv' /\ PromisedInv' /\ SignedTreeInOrder'
    BY <1>1 DEF SagaInv, RowsInv, EarlyInv, PromisedInv, SignedTreeInOrder, worldVars
  <2>2. WorkerInv'
    BY <1>1 DEF SagaInv, WorkerInv, Cursor, worldVars
  <2> QED
    BY <2>1, <2>2
<1>5. RequestInv'
  BY <1>1, <1>2 DEF SagaInv, RowsInv, RequestInv, Early
<1>6. StepsInv'
  BY <1>1, <1>2 DEF SagaInv, StepsInv, Done, Cursor, worldVars
<1> QED
  BY <1>3, <1>4, <1>5, <1>6 DEF SagaInv

\* The worker raises or is lost: its tick with it.
LEMMA TickLost ==
    ASSUME SagaTypeOK, SagaInv, WorkerRaises \/ WorkerCrashes
    PROVE  SagaTypeOK' /\ SagaInv'
<1>1. /\ UNCHANGED <<package, publication, steps, attempts, registered, request, promised,
                     worldVars>>
      /\ worker' = Idle /\ crashes' \in Nat
  BY DEF WorkerRaises, WorkerCrashes, SagaTypeOK
<1>2. SagaTypeOK'
  BY <1>1 DEF SagaTypeOK, WorkerState, worldVars
<1>3. RowsInv' /\ RequestInv' /\ EarlyInv' /\ PromisedInv' /\ SignedTreeInOrder'
  BY <1>1 DEF SagaInv, RowsInv, RequestInv, EarlyInv, PromisedInv, SignedTreeInOrder, worldVars
<1>4. WorkerInv' /\ StepsInv'
  BY <1>1 DEF SagaInv, WorkerInv, StepsInv, Done, worldVars
<1> QED
  BY <1>2, <1>3, <1>4 DEF SagaInv

\* The brake, the clock and a pause touch nothing the invariants speak of.
LEMMA WorldTurns ==
    ASSUME SagaTypeOK, SagaInv, PauseCampaign \/ ToggleBar \/ TimePasses
    PROVE  SagaTypeOK' /\ SagaInv'
<1>1. /\ UNCHANGED <<package, publication, steps, attempts, registered, worker, request, promised,
                     crashes, travelling, remote, refusedSteps, sends>>
      /\ serving' \in BOOLEAN /\ barred' \in BOOLEAN
      /\ window' \in {"grace", "open", "expired"}
  BY DEF PauseCampaign, ToggleBar, TimePasses, SagaTypeOK
<1>2. SagaTypeOK'
  BY <1>1 DEF SagaTypeOK
<1>3. RowsInv' /\ RequestInv' /\ EarlyInv' /\ PromisedInv' /\ SignedTreeInOrder'
  BY <1>1 DEF SagaInv, RowsInv, RequestInv, EarlyInv, PromisedInv, SignedTreeInOrder
<1>4. WorkerInv' /\ StepsInv'
  BY <1>1 DEF SagaInv, WorkerInv, Cursor, StepsInv, Done
<1> QED
  BY <1>2, <1>3, <1>4 DEF SagaInv

\* The platform carries out or refuses what was travelling.
LEMMA PlatformKeeps ==
    ASSUME SagaTypeOK, SagaInv, PlatformApplies \/ PlatformRefuses
    PROVE  SagaTypeOK' /\ SagaInv'
<1>0. UNCHANGED <<package, publication, steps, attempts, registered, worker, request, promised,
                  crashes, window, barred, sends>>
  BY DEF PlatformApplies, PlatformRefuses
<1>1. PICK i \in StepIndexes, t \in Trees :
          /\ <<i, t>> \in travelling /\ travelling' = travelling \ {<<i, t>>}
          /\ \/ remote' = [remote EXCEPT ![i] = t] /\ refusedSteps' = refusedSteps
                /\ serving' = (serving \/ i = Activation)
             \/ remote' = remote /\ refusedSteps' = refusedSteps \cup {i} /\ serving' = serving
  BY DEF PlatformApplies, PlatformRefuses
<1>2. SagaTypeOK'
  <2>1. /\ travelling' \subseteq StepIndexes \X Trees /\ refusedSteps' \subseteq StepIndexes
        /\ remote' \in [StepIndexes -> Trees \cup {NoTree}]
    BY <1>1 DEF SagaTypeOK
  <2>2. serving' \in BOOLEAN
    BY <1>1 DEF SagaTypeOK
  <2> QED
    BY <1>0, <2>1, <2>2 DEF SagaTypeOK
<1>3. /\ t = publication.tree /\ t # NoTree
      /\ \A j \in 1..(i - 1) : remote[j] = t
      /\ package.state \in Early => i \notin Visible
  BY <1>1, PlanHasSteps DEF SagaInv, SignedTreeInOrder, EarlyInv
<1>4. \A j \in StepIndexes : remote'[j] # remote[j] => j = i /\ remote'[j] = t
  BY <1>1 DEF SagaTypeOK
<1>5. SignedTreeInOrder'
  <2> SUFFICES ASSUME NEW k \in StepIndexes, NEW u \in Trees,
                      (remote[k] = u \/ <<k, u>> \in travelling)'
               PROVE  u = publication.tree /\ \A j \in 1..(k - 1) : remote'[j] = u
    BY <1>0 DEF SignedTreeInOrder
  <2>1. remote[k] = u \/ <<k, u>> \in travelling
    BY <1>1, <1>4
  <2>2. u = publication.tree /\ \A j \in 1..(k - 1) : remote[j] = u
    BY <2>1 DEF SagaInv, SignedTreeInOrder
  <2>3. 1..(k - 1) \subseteq StepIndexes
    BY PlanHasSteps DEF StepIndexes
  <2> QED
    BY <1>3, <1>4, <2>2, <2>3
<1>6. \A j \in StepIndexes : remote[j] # NoTree => remote'[j] # NoTree
  BY <1>3, <1>4
<1>7. EarlyInv'
  BY <1>0, <1>1, <1>3, <1>4 DEF SagaInv, EarlyInv, Visible
<1>8. StepsInv'
  BY <1>0, <1>6 DEF SagaInv, StepsInv, Done, Cursor
<1>9. RowsInv' /\ RequestInv' /\ PromisedInv'
  BY <1>0 DEF SagaInv, RowsInv, RequestInv, PromisedInv
<1>10. WorkerInv'
  <2>1. worker # Idle => Cursor \in StepIndexes
    BY TickUnderWay DEF SagaTypeOK, Ticks, OngoingRow, Cursor
  <2> QED
    BY <1>0, <1>6, <2>1 DEF SagaInv, WorkerInv, Cursor
<1> QED
  BY <1>2, <1>5, <1>7, <1>8, <1>9, <1>10 DEF SagaInv

-----------------------------------------------------------------------------
(* PackagePublication: the tick. *)

\* A step of the tick that leaves the package, the publication, the steps and
\* what was sent as they are disturbs only what the worker holds.
LEMMA TickInHand ==
    ASSUME SagaTypeOK, SagaInv, worker' \in WorkerState,
           UNCHANGED <<package, publication, steps, registered, request, promised, crashes, window,
                       barred, travelling, remote, refusedSteps, serving, sends>>,
           attempts' \in [StepIndexes -> {"none", "claimed", "running", "unknown", "executed",
                                          "failed", "blocked"}],
           \A i \in StepIndexes : attempts'[i] = "executed" => remote[i] # NoTree,
           worker # Idle \/ publication.state \in Open,
           worker' # Idle /\ worker'.publication \in {worker.publication, publication},
           worker = Idle => worker'.publication = publication
    PROVE  /\ SagaTypeOK' /\ RowsInv' /\ RequestInv' /\ StepsInv' /\ EarlyInv' /\ PromisedInv'
           /\ SignedTreeInOrder' /\ publication.state # "none"
           /\ worker'.publication.tree = publication.tree
<1>1. SagaTypeOK'
  BY DEF SagaTypeOK
<1>2. RowsInv' /\ RequestInv' /\ EarlyInv' /\ PromisedInv' /\ SignedTreeInOrder'
  BY DEF SagaInv, RowsInv, RequestInv, EarlyInv, PromisedInv, SignedTreeInOrder
<1>3. publication.state # "none" /\ worker'.publication.tree = publication.tree
  BY DEF SagaInv, WorkerInv, Open
<1>4. StepsInv'
  BY DEF SagaInv, StepsInv, Done, Cursor
<1> QED
  BY <1>1, <1>2, <1>3, <1>4

\* The worker reads an open publication and its package.
LEMMA ReadsKeeps ==
    ASSUME SagaTypeOK, SagaInv, WorkerReads
    PROVE  SagaTypeOK' /\ SagaInv'
<1> DEFINE tick == [pc |-> "read", package |-> package, publication |-> publication,
                    locked |-> TRUE, began |-> FALSE, proposal |-> FALSE, outcome |-> "none"]
<1>1. /\ worker = Idle /\ worker' = tick /\ publication.state \in Open
      /\ UNCHANGED <<package, publication, steps, attempts, registered, request, promised, crashes,
                     worldVars>>
  BY DEF WorkerReads, Open
<1>2. tick \in WorkerState /\ tick \in Ticks
  <2>1. publication \in OngoingRow
    BY <1>1, PublicationFields DEF SagaTypeOK, Open
  <2> QED
    BY <2>1 DEF SagaTypeOK, WorkerState, Ticks, Stages, Outcomes
<1>3. /\ tick.pc = "read" /\ tick.package = package /\ tick.publication = publication
      /\ tick.locked /\ ~tick.began /\ ~tick.proposal /\ tick # Idle
  BY DEF Idle
<1> HIDE DEF tick
<1>4. /\ SagaTypeOK' /\ RowsInv' /\ RequestInv' /\ StepsInv' /\ EarlyInv' /\ PromisedInv'
      /\ SignedTreeInOrder' /\ publication.state # "none"
  BY <1>1, <1>2, <1>3, TickInHand DEF worldVars, SagaTypeOK, SagaInv, StepsInv
<1>5. /\ package.state \in PackageStates
      /\ package.state \in Early => package.state \in {"approved", "invalidated"}
      /\ package.state = "invalidated" => package.tree # publication.tree
  BY <1>1, <1>4 DEF SagaInv, RowsInv, SagaTypeOK, PackageRow, Early
<1>6. WorkerInv'
  BY <1>1, <1>3, <1>4, <1>5 DEF WorkerInv, Early
<1> QED
  BY <1>4, <1>6 DEF SagaInv

\* begin_publishing finds the package approved, or does not begin.
LEMMA BeginsKeeps ==
    ASSUME SagaTypeOK, SagaInv, WorkerBegins
    PROVE  SagaTypeOK' /\ SagaInv'
<1> DEFINE first == worker.package.state = "approved"
           saved == IF first THEN [worker.package EXCEPT !.state = "publishing"]
                    ELSE worker.package
           tick == [worker EXCEPT !.pc = "begun", !.began = first, !.package = saved]
<1>1. /\ worker.pc = "read" /\ worker # Idle /\ worker \in Ticks
      /\ UNCHANGED <<package, publication, steps, attempts, registered, request, promised, crashes,
                     worldVars>>
  BY TickUnderWay DEF WorkerBegins, SagaTypeOK
<1>2. worker' = tick
  BY <1>1 DEF WorkerBegins, Ticks
<1>3. saved \in PackageRow /\ saved.tree = worker.package.tree
      /\ (first => saved.state = "publishing") /\ (~first => saved = worker.package)
  BY <1>1 DEF Ticks, PackageRow, PackageStates
<1>4. first => package.state = "approved"
  <2> SUFFICES ASSUME first PROVE package.state = "approved"
    OBVIOUS
  <2>1. package.state \in {"approved", "invalidated"}
    BY <1>1 DEF SagaInv, WorkerInv
  <2>2. [package EXCEPT !.state = "publishing"].state = "publishing"
    BY DEF SagaTypeOK, PackageRow
  <2>3. PackageMoves(package.state, "publishing")
    BY <2>2 DEF WorkerBegins, PackageGuard
  <2>4. "publishing" \in PackageStates /\ package.state \in PackageStates
    BY <2>1 DEF PackageStates
  <2> QED
    BY <2>1, <2>3, <2>4, PackageMoved
<1>5. first \in BOOLEAN
  OBVIOUS
<1> HIDE DEF first, saved
<1>6. /\ tick \in Ticks /\ tick.pc = "begun" /\ tick.began = first /\ tick.package = saved
      /\ tick.publication = worker.publication /\ tick.locked = worker.locked
      /\ tick.proposal = worker.proposal
  BY <1>1, <1>3, <1>5 DEF Ticks, Stages
<1>7. tick # Idle /\ tick \in WorkerState
  BY <1>6 DEF Idle, WorkerState
<1> HIDE DEF tick
<1>8. /\ SagaTypeOK' /\ RowsInv' /\ RequestInv' /\ StepsInv' /\ EarlyInv' /\ PromisedInv'
      /\ SignedTreeInOrder' /\ publication.state # "none"
      /\ tick.publication.tree = publication.tree
  BY <1>1, <1>2, <1>6, <1>7, TickInHand DEF worldVars, SagaTypeOK, SagaInv, StepsInv
<1>9. WorkerInv'
  BY <1>1, <1>2, <1>3, <1>4, <1>6, <1>8 DEF SagaInv, WorkerInv, first
<1> QED
  BY <1>8, <1>9 DEF SagaInv

\* A tick that has its answer: with a proposal only once the package is late,
\* and done only when the step is on the platform.
LEMMA TickAnswers ==
    ASSUME SagaTypeOK, SagaInv, worker # Idle, NEW tick \in Ticks, worker' = tick,
           UNCHANGED <<package, publication, steps, registered, request, promised, crashes, window,
                       barred, travelling, remote, refusedSteps, serving, sends>>,
           attempts' \in [StepIndexes -> {"none", "claimed", "running", "unknown", "executed",
                                          "failed", "blocked"}],
           \A i \in StepIndexes : attempts'[i] = "executed" => remote[i] # NoTree,
           tick.pc = "answered", tick.publication = worker.publication,
           tick.package = worker.package, tick.began = worker.began,
           package.state \notin Early \/ (tick.locked = worker.locked /\ ~tick.proposal),
           tick.outcome = "done" => remote[Cursor] # NoTree
    PROVE  SagaTypeOK' /\ SagaInv'
<1>1. tick # Idle /\ tick \in WorkerState
  BY DEF Ticks, Idle, WorkerState, Stages
<1>2. /\ SagaTypeOK' /\ RowsInv' /\ RequestInv' /\ StepsInv' /\ EarlyInv' /\ PromisedInv'
      /\ SignedTreeInOrder' /\ publication.state # "none"
      /\ tick.publication.tree = publication.tree
  BY <1>1, TickInHand
<1>3. tick.began => package.state \in Early
  BY DEF SagaInv, WorkerInv, Early
<1>4. Cursor' = Cursor
  BY DEF Cursor
<1>5. WorkerInv'
  BY <1>1, <1>2, <1>3, <1>4 DEF SagaInv, WorkerInv
<1> QED
  BY <1>2, <1>5 DEF SagaInv

\* The step at the cursor of a tick under way.
LEMMA TickAt ==
    ASSUME SagaTypeOK, worker # Idle
    PROVE  worker \in Ticks /\ Cursor \in StepIndexes
<1>1. worker \in Ticks
  BY TickUnderWay DEF SagaTypeOK
<1> QED
  BY <1>1 DEF Cursor, Ticks, OngoingRow

\* A step that is denied before anything is proposed, one the gates refuse, and
\* one that hears from the platform.
LEMMA AnswersKeep ==
    ASSUME SagaTypeOK, SagaInv, NEW i \in StepIndexes,
           ExecutorDenies(i) \/ ChokepointRefuses(i) \/ Hear(i)
    PROVE  SagaTypeOK' /\ SagaInv'
<1>0. /\ worker.pc \in {"begun", "gated", "sent"} /\ i = Cursor
      /\ UNCHANGED <<package, publication, steps, registered, request, promised, crashes, window,
                     barred, travelling, remote, refusedSteps, serving, sends>>
  BY DEF ExecutorDenies, ChokepointRefuses, Hear, MayStep, worldVars
<1>1. worker # Idle
  BY <1>0, TickUnderWay DEF SagaTypeOK
<1>2. worker \in Ticks
  BY <1>1, TickAt
<1>3. PICK outcome \in Outcomes, with \in BOOLEAN :
          /\ Answered(i, outcome, with)
          /\ package.state \in Early => ~with
          /\ outcome = "done" => remote[i] # NoTree
          /\ \/ UNCHANGED attempts
             \/ /\ attempts' = [attempts EXCEPT ![i] = StatusOf(outcome)]
                /\ outcome \in {"failed", "blocked", "unknown", "done"}
  <2>1. CASE ExecutorDenies(i)
    BY <2>1 DEF ExecutorDenies, Denials, Outcomes
  <2>2. CASE ChokepointRefuses(i)
    <3>1. package.state \notin Early
      BY <1>1, <2>2 DEF ChokepointRefuses, SagaInv, WorkerInv
    <3>2. PICK status \in {"failed", "blocked"} :
              attempts' = [attempts EXCEPT ![i] = status] /\ Answered(i, status, TRUE)
      BY <2>2 DEF ChokepointRefuses
    <3>3. StatusOf(status) = status /\ status \in Outcomes
      BY DEF StatusOf, Outcomes
    <3> QED
      BY <3>1, <3>2, <3>3
  <2>3. CASE Hear(i)
    <3>1. PICK outcome \in Knowable(i) :
              /\ Answered(i, outcome, worker.proposal)
              /\ attempts' = IF i \in Uploads THEN attempts
                             ELSE [attempts EXCEPT ![i] = StatusOf(outcome)]
      BY <2>3 DEF Hear
    <3>2. outcome \in {"failed", "unknown", "done"} /\ (outcome = "done" => remote[i] # NoTree)
      BY DEF Knowable, Applied
    <3>3. worker.proposal \in BOOLEAN /\ (package.state \in Early => ~worker.proposal)
      BY <1>1, <1>2 DEF Ticks, SagaInv, WorkerInv
    <3> QED
      BY <3>1, <3>2, <3>3 DEF Outcomes
  <2> QED
    BY <2>1, <2>2, <2>3
<1> DEFINE tick == [worker EXCEPT !.pc = "answered", !.outcome = outcome, !.proposal = with]
<1>4. /\ tick \in Ticks /\ tick.pc = "answered" /\ tick.package = worker.package
      /\ tick.publication = worker.publication /\ tick.began = worker.began
      /\ tick.locked = worker.locked /\ tick.proposal = with /\ tick.outcome = outcome
  <2>1. "answered" \in Stages
    BY DEF Stages
  <2> QED
    BY <1>2, <2>1 DEF Ticks
<1>5. worker' = tick
  BY <1>3 DEF Answered
<1> HIDE DEF tick
<1>6. /\ attempts' \in [StepIndexes -> {"none", "claimed", "running", "unknown", "executed",
                                        "failed", "blocked"}]
      /\ \A j \in StepIndexes : attempts'[j] = "executed" => remote[j] # NoTree
  <2>1. CASE UNCHANGED attempts
    BY <2>1 DEF SagaTypeOK, SagaInv, StepsInv
  <2>2. CASE /\ attempts' = [attempts EXCEPT ![i] = StatusOf(outcome)]
             /\ outcome \in {"failed", "blocked", "unknown", "done"}
    <3>1. /\ StatusOf(outcome) \in {"failed", "blocked", "unknown", "executed"}
          /\ StatusOf(outcome) = "executed" => outcome = "done"
      BY <2>2 DEF StatusOf
    <3> QED
      BY <1>3, <2>2, <3>1 DEF SagaTypeOK, SagaInv, StepsInv
  <2> QED
    BY <1>3, <2>1, <2>2
<1> QED
  BY <1>0, <1>1, <1>3, <1>4, <1>5, <1>6, TickAnswers

\* A step with a proposal is settled from the receipt.
LEMMA ReconcileKeeps ==
    ASSUME SagaTypeOK, SagaInv, NEW i \in StepIndexes, Reconcile(i)
    PROVE  SagaTypeOK' /\ SagaInv'
<1>0. /\ worker.pc = "begun" /\ i = Cursor /\ steps[i].proposal
      /\ UNCHANGED <<package, publication, steps, registered, request, promised, crashes, window,
                     barred, travelling, remote, refusedSteps, serving, sends>>
  BY DEF Reconcile, MayStep, worldVars
<1>1. worker # Idle
  BY <1>0, TickUnderWay DEF SagaTypeOK
<1>2. worker \in Ticks /\ package.state \notin Early
  BY <1>0, <1>1, TickAt DEF SagaInv, StepsInv
<1>3. attempts[i] \in {"none", "claimed", "running", "unknown", "executed", "failed", "blocked"}
      /\ (attempts[i] = "executed" => remote[i] # NoTree)
  BY DEF SagaTypeOK, SagaInv, StepsInv
<1>4. CASE attempts[i] \in {"claimed", "running", "unknown"}
  <2>1. PICK outcome \in Knowable(i) :
            /\ attempts' = [attempts EXCEPT ![i] = StatusOf(outcome)]
            /\ worker' = [worker EXCEPT !.pc = "answered", !.outcome = outcome,
                                        !.proposal = TRUE, !.locked = outcome = "unknown"]
    BY <1>4 DEF Reconcile
  <2>2. outcome \in {"failed", "unknown", "done"} /\ (outcome = "done" => remote[i] # NoTree)
    BY DEF Knowable, Applied
  <2> DEFINE tick == [worker EXCEPT !.pc = "answered", !.outcome = outcome, !.proposal = TRUE,
                                    !.locked = outcome = "unknown"]
  <2>3. outcome \in Outcomes /\ "answered" \in Stages /\ (outcome = "unknown") \in BOOLEAN
    BY <2>2 DEF Outcomes, Stages
  <2>4. /\ tick \in Ticks /\ tick.pc = "answered" /\ tick.package = worker.package
        /\ tick.publication = worker.publication /\ tick.began = worker.began
        /\ tick.outcome = outcome
    BY <1>2, <2>3 DEF Ticks
  <2> HIDE DEF tick
  <2>5. /\ StatusOf(outcome) \in {"failed", "unknown", "executed"}
        /\ StatusOf(outcome) = "executed" => outcome = "done"
    BY <2>2 DEF StatusOf
  <2>6. /\ attempts' \in [StepIndexes -> {"none", "claimed", "running", "unknown", "executed",
                                          "failed", "blocked"}]
        /\ \A j \in StepIndexes : attempts'[j] = "executed" => remote[j] # NoTree
    BY <2>1, <2>2, <2>5 DEF SagaTypeOK, SagaInv, StepsInv
  <2>7. worker' = tick
    BY <2>1 DEF tick
  <2> QED
    BY <1>0, <1>1, <1>2, <2>2, <2>4, <2>6, <2>7, TickAnswers
<1>5. CASE attempts[i] \notin {"claimed", "running", "unknown"}
  <2> DEFINE outcome == IF attempts[i] = "executed" THEN "done" ELSE attempts[i]
             tick == [worker EXCEPT !.pc = "answered", !.outcome = outcome, !.proposal = TRUE]
  <2>1. worker' = tick /\ UNCHANGED attempts
    BY <1>5 DEF Reconcile, Answered
  <2>2. outcome \in Outcomes /\ (outcome = "done" => remote[i] # NoTree)
    BY <1>3, <1>5 DEF Outcomes
  <2> HIDE DEF outcome
  <2>3. /\ tick \in Ticks /\ tick.pc = "answered" /\ tick.package = worker.package
        /\ tick.publication = worker.publication /\ tick.began = worker.began
        /\ tick.outcome = outcome
    <3>1. "answered" \in Stages
      BY DEF Stages
    <3> QED
      BY <1>2, <2>2, <3>1 DEF Ticks
  <2> HIDE DEF tick
  <2>4. /\ attempts' \in [StepIndexes -> {"none", "claimed", "running", "unknown", "executed",
                                          "failed", "blocked"}]
        /\ \A j \in StepIndexes : attempts'[j] = "executed" => remote[j] # NoTree
    BY <2>1 DEF SagaTypeOK, SagaInv, StepsInv
  <2> QED
    BY <1>0, <1>1, <1>2, <2>1, <2>2, <2>3, <2>4, TickAnswers
<1> QED
  BY <1>4, <1>5

\* A tick about to take a step has the signed tree in hand, everything before the
\* step is on the platform, and the package is late or becomes so with the step.
LEMMA MayStepInOrder ==
    ASSUME SagaTypeOK, SagaInv, NEW i \in StepIndexes, MayStep(i)
    PROVE  /\ worker \in Ticks /\ worker # Idle /\ worker.pc = "begun" /\ i = Cursor
           /\ worker.package.tree = publication.tree /\ publication.tree \in Trees
           /\ \A j \in 1..(i - 1) : remote[j] = publication.tree
           /\ worker.began => worker.package.state = "publishing" /\ package.state = "approved"
           /\ worker.began \/ package.state \notin Early
<1>1. worker.pc = "begun" /\ i = Cursor
  BY DEF MayStep
<1>2. worker # Idle
  BY <1>1, TickUnderWay DEF SagaTypeOK
<1>3. worker \in Ticks
  BY <1>2, TickAt
<1>4. worker.package.tree = publication.tree
  BY <1>2 DEF MayStep, PreFlightHalts, SagaInv, WorkerInv
<1>5. worker.package.tree \in Trees
  BY <1>3 DEF Ticks, PackageRow
<1>6. \A j \in 1..(i - 1) : remote[j] = publication.tree
  <2> SUFFICES ASSUME NEW j \in 1..(i - 1) PROVE remote[j] = publication.tree
    OBVIOUS
  <2>1. j \in StepIndexes
    BY PlanHasSteps DEF StepIndexes
  <2>2. Done(j)
    BY <1>1, <1>2 DEF SagaInv, StepsInv
  <2>3. remote[j] \in Trees
    BY <2>1, <2>2 DEF SagaInv, StepsInv, SagaTypeOK
  <2> QED
    BY <2>1, <2>3 DEF SagaInv, SignedTreeInOrder
<1>7. worker.began => worker.package.state = "publishing" /\ package.state = "approved"
  BY <1>2 DEF SagaInv, WorkerInv
<1>8. worker.began \/ package.state \notin Early
  BY <1>1, <1>2, <1>4 DEF SagaInv, WorkerInv
<1> QED
  BY <1>1, <1>2, <1>3, <1>4, <1>5, <1>6, <1>7, <1>8

\* A write that leaves is of the signed tree, after everything before it.
LEMMA SentInOrder ==
    ASSUME SagaTypeOK, SignedTreeInOrder, NEW i \in StepIndexes,
           travelling' = travelling \cup {<<i, publication.tree>>},
           UNCHANGED <<remote, publication>>,
           \A j \in 1..(i - 1) : remote[j] = publication.tree
    PROVE  SignedTreeInOrder'
<1> SUFFICES ASSUME NEW k \in StepIndexes, NEW u \in Trees,
                    remote[k] = u \/ <<k, u>> \in travelling'
             PROVE  u = publication.tree /\ \A j \in 1..(k - 1) : remote[j] = u
  BY DEF SignedTreeInOrder
<1>1. CASE remote[k] = u \/ <<k, u>> \in travelling
  BY <1>1 DEF SignedTreeInOrder
<1>2. CASE <<k, u>> = <<i, publication.tree>>
  <2>1. k = i /\ u = publication.tree
    BY <1>2
  <2> QED
    BY <2>1
<1> QED
  BY <1>1, <1>2

\* A creative leaves: nothing visible, of the signed tree.
LEMMA UploadKeeps ==
    ASSUME SagaTypeOK, SagaInv, NEW i \in StepIndexes, UploadCreative(i)
    PROVE  SagaTypeOK' /\ SagaInv'
<1>1. /\ worker \in Ticks /\ worker # Idle /\ worker.pc = "begun" /\ i = Cursor
      /\ worker.package.tree = publication.tree /\ publication.tree \in Trees
      /\ \A j \in 1..(i - 1) : remote[j] = publication.tree
  BY MayStepInOrder DEF UploadCreative
<1> DEFINE tick == [worker EXCEPT !.pc = "sent"]
<1>2. /\ i \notin Visible /\ worker' = tick
      /\ travelling' = travelling \cup {<<i, publication.tree>>}
      /\ refusedSteps' = refusedSteps \ {i}
      /\ UNCHANGED <<package, publication, steps, attempts, registered, request, promised, crashes,
                     window, barred, remote, serving, sends>>
  BY <1>1 DEF UploadCreative, Visible
<1>3. /\ tick \in Ticks /\ tick.pc = "sent" /\ tick.package = worker.package
      /\ tick.publication = worker.publication /\ tick.began = worker.began
      /\ tick.locked = worker.locked /\ tick.proposal = worker.proposal
  <2>1. "sent" \in Stages
    BY DEF Stages
  <2> QED
    BY <1>1, <2>1 DEF Ticks
<1>4. tick # Idle /\ tick \in WorkerState
  BY <1>3 DEF Idle, WorkerState
<1> HIDE DEF tick
<1>5. SagaTypeOK'
  <2>1. travelling' \subseteq StepIndexes \X Trees /\ refusedSteps' \subseteq StepIndexes
    BY <1>1, <1>2 DEF SagaTypeOK
  <2> QED
    BY <1>2, <1>4, <2>1 DEF SagaTypeOK
<1>6. RowsInv' /\ RequestInv' /\ PromisedInv'
  BY <1>2 DEF SagaInv, RowsInv, RequestInv, PromisedInv
<1>7. SignedTreeInOrder'
  BY <1>1, <1>2, SentInOrder DEF SagaInv
<1>8. EarlyInv'
  <2>1. \A j \in Visible : \A t \in Trees : <<j, t>> \in travelling' => <<j, t>> \in travelling
    BY <1>2
  <2> QED
    BY <1>2, <2>1 DEF SagaInv, EarlyInv
<1>9. StepsInv'
  BY <1>1, <1>2, <1>3 DEF SagaInv, StepsInv, Done, Cursor
<1>10. WorkerInv'
  BY <1>1, <1>2, <1>3, <1>4 DEF SagaInv, WorkerInv, Cursor
<1> QED
  BY <1>5, <1>6, <1>7, <1>8, <1>9, <1>10 DEF SagaInv

\* A request leaves for the platform once the gates are behind it.
LEMMA SendKeeps ==
    ASSUME SagaTypeOK, SagaInv, NEW i \in StepIndexes, SendStep(i)
    PROVE  SagaTypeOK' /\ SagaInv'
<1> DEFINE tick == [worker EXCEPT !.pc = "sent"]
<1>1. /\ worker.pc = "gated" /\ i = Cursor /\ worker' = tick
      /\ attempts' = [attempts EXCEPT ![i] = "running"]
      /\ travelling' = travelling \cup {<<i, worker.package.tree>>}
      /\ sends' = [sends EXCEPT ![i] = @ + 1]
      /\ UNCHANGED <<package, publication, steps, registered, request, promised, crashes, window,
                     barred, remote, refusedSteps, serving>>
  BY DEF SendStep
<1>2. worker # Idle
  BY <1>1, TickUnderWay DEF SagaTypeOK
<1>3. /\ worker \in Ticks /\ package.state \notin Early /\ worker.package.tree = publication.tree
      /\ worker.package.tree \in Trees
  <2>1. worker \in Ticks
    BY <1>2, TickAt
  <2> QED
    BY <1>1, <1>2, <2>1 DEF SagaInv, WorkerInv, Ticks, PackageRow
<1>4. \A j \in 1..(i - 1) : remote[j] = publication.tree
  <2> SUFFICES ASSUME NEW j \in 1..(i - 1) PROVE remote[j] = publication.tree
    OBVIOUS
  <2>1. j \in StepIndexes
    BY PlanHasSteps DEF StepIndexes
  <2>2. Done(j)
    BY <1>1, <1>2 DEF SagaInv, StepsInv
  <2>3. remote[j] \in Trees
    BY <2>1, <2>2 DEF SagaInv, StepsInv, SagaTypeOK
  <2> QED
    BY <2>1, <2>3 DEF SagaInv, SignedTreeInOrder
<1>5. /\ tick \in Ticks /\ tick.pc = "sent" /\ tick.package = worker.package
      /\ tick.publication = worker.publication /\ tick.began = worker.began
      /\ tick.locked = worker.locked /\ tick.proposal = worker.proposal
  <2>1. "sent" \in Stages
    BY DEF Stages
  <2> QED
    BY <1>3, <2>1 DEF Ticks
<1>6. tick # Idle /\ tick \in WorkerState
  BY <1>5 DEF Idle, WorkerState
<1> HIDE DEF tick
<1>7. SagaTypeOK'
  <2>1. /\ travelling' \subseteq StepIndexes \X Trees /\ sends' \in [StepIndexes -> Nat]
        /\ attempts' \in [StepIndexes -> {"none", "claimed", "running", "unknown", "executed",
                                          "failed", "blocked"}]
    BY <1>1, <1>3 DEF SagaTypeOK
  <2> QED
    BY <1>1, <1>6, <2>1 DEF SagaTypeOK
<1>8. RowsInv' /\ RequestInv' /\ PromisedInv' /\ EarlyInv'
  BY <1>1, <1>3 DEF SagaInv, RowsInv, RequestInv, PromisedInv, EarlyInv
<1>9. SignedTreeInOrder'
  BY <1>1, <1>3, <1>4, SentInOrder DEF SagaInv
<1>10. StepsInv'
  <2>1. \A j \in StepIndexes : attempts'[j] = "executed" => attempts[j] = "executed"
    BY <1>1 DEF SagaTypeOK
  <2> QED
    BY <1>1, <1>2, <1>5, <2>1 DEF SagaInv, StepsInv, Done, Cursor
<1>11. WorkerInv'
  BY <1>1, <1>2, <1>3, <1>5, <1>6 DEF SagaInv, WorkerInv, Cursor
<1> QED
  BY <1>7, <1>8, <1>9, <1>10, <1>11 DEF SagaInv

\* The gates' commit makes the package late, together with the step.
LEMMA GatesKeep ==
    ASSUME SagaTypeOK, SagaInv, NEW i \in StepIndexes, GatesCommit(i)
    PROVE  SagaTypeOK' /\ SagaInv'
<1>1. /\ worker \in Ticks /\ worker # Idle /\ i = Cursor /\ i \notin Uploads
      /\ worker.package.tree = publication.tree
      /\ worker.began => worker.package.state = "publishing" /\ package.state = "approved"
      /\ worker.began \/ package.state \notin Early
  BY MayStepInOrder DEF GatesCommit
<1> DEFINE tick == [worker EXCEPT !.pc = "gated", !.locked = FALSE, !.began = FALSE,
                                  !.proposal = TRUE]
           pending == IF steps[i].state = "absent" THEN "pending" ELSE steps[i].state
<1>2. /\ worker' = tick /\ attempts' = [attempts EXCEPT ![i] = "claimed"]
      /\ package' = (IF worker.began THEN worker.package ELSE package)
      /\ UNCHANGED <<publication, registered, request, promised, crashes, window, barred,
                     travelling, remote, refusedSteps, serving, sends>>
  BY DEF GatesCommit, worldVars
<1>3. steps' = [steps EXCEPT ![i] = [steps[i] EXCEPT !.state = pending]]
  BY DEF GatesCommit, SagaTypeOK, StepRow
<1>4. /\ tick \in Ticks /\ tick.pc = "gated" /\ tick.package = worker.package
      /\ tick.publication = worker.publication /\ ~tick.began /\ ~tick.locked
  <2>1. "gated" \in Stages
    BY DEF Stages
  <2> QED
    BY <1>1, <2>1 DEF Ticks
<1>5. tick # Idle /\ tick \in WorkerState
  BY <1>4 DEF Idle, WorkerState
<1>6. /\ steps' \in [StepIndexes -> StepRow]
      /\ \A j \in StepIndexes : (steps'[j].state = "done") = (steps[j].state = "done")
  <2>1. pending \in StepStates \ {"running"} /\ (pending = "done") = (steps[i].state = "done")
    BY DEF SagaTypeOK, StepRow, StepStates
  <2> HIDE DEF pending
  <2>2. [steps[i] EXCEPT !.state = pending] \in StepRow
    BY <2>1 DEF SagaTypeOK, StepRow
  <2> QED
    BY <1>3, <2>1, <2>2 DEF SagaTypeOK, StepRow
<1> HIDE DEF tick, pending
<1>7. package' \in PackageRow /\ package'.state \notin Early
  BY <1>1, <1>2 DEF SagaTypeOK, Ticks, Early
<1>8. SagaTypeOK'
  <2>1. attempts' \in [StepIndexes -> {"none", "claimed", "running", "unknown", "executed",
                                       "failed", "blocked"}]
    BY <1>2 DEF SagaTypeOK
  <2> QED
    BY <1>2, <1>5, <1>6, <1>7, <2>1 DEF SagaTypeOK
<1>9. RowsInv' /\ EarlyInv'
  <2>1. publication.state # "none"
    BY <1>1 DEF SagaInv, WorkerInv
  <2> QED
    BY <1>2, <1>7, <2>1 DEF RowsInv, EarlyInv, Early
<1>10. package' = package \/ package.state = "approved"
  BY <1>1, <1>2
<1>11. RequestInv'
  BY <1>2, <1>7, <1>10 DEF SagaInv, RequestInv, Early
<1>12. PromisedInv'
  BY <1>1, <1>2 DEF SagaInv, PromisedInv, Early
<1>13. SignedTreeInOrder'
  BY <1>2 DEF SagaInv, SignedTreeInOrder
<1>14. StepsInv'
  <2>1. \A j \in StepIndexes : attempts'[j] = "executed" => attempts[j] = "executed"
    BY <1>2 DEF SagaTypeOK
  <2>2. /\ 1..(publication.cursor - 1) \subseteq StepIndexes
        /\ request # NoRequest => 1..(request.publication.cursor - 1) \subseteq StepIndexes
    BY BeforeCursor DEF SagaTypeOK, RequestState
  <2>3. 1..(Cursor - 1) \subseteq StepIndexes
    BY <1>1, TickAt, PlanHasSteps DEF StepIndexes
  <2> QED
    BY <1>1, <1>2, <1>4, <1>6, <1>7, <2>1, <2>2, <2>3 DEF SagaInv, StepsInv, Done, Cursor
<1>15. WorkerInv'
  BY <1>1, <1>2, <1>4, <1>5, <1>7 DEF SagaInv, WorkerInv, Cursor
<1> QED
  BY <1>8, <1>9, <1>11, <1>12, <1>13, <1>14, <1>15 DEF SagaInv

\* However a tick ends, what it writes belongs to the signed publication, keeps
\* what was done, and moves the package only when it is late or its own.
LEMMA ConcludeKeeps ==
    ASSUME SagaTypeOK, SagaInv, worker # Idle,
           NEW state \in PackageStates, NEW recorded \in BOOLEAN, NEW pub \in PublicationRow,
           NEW rows, NEW known \in SUBSET Creating, NEW admitted \in BOOLEAN,
           Conclude(state, recorded, pub, rows, known, admitted),
           IF recorded THEN state \in Late \ {"publishing"} ELSE state = worker.package.state,
           pub.tree = worker.publication.tree, pub.state # "none",
           admitted => /\ rows \in [StepIndexes -> StepRow]
                       /\ \A j \in StepIndexes :
                             /\ Done(j) => rows[j].state = "done"
                             /\ rows[j].state = "done" => remote[j] # NoTree
                             /\ rows[j].proposal => steps[j].proposal \/ worker.proposal
                       /\ \A j \in 1..(pub.cursor - 1) : rows[j].state = "done"
    PROVE  SagaTypeOK' /\ SagaInv'
<1> DEFINE new == [worker.package EXCEPT !.state = state]
           from == IF worker.began THEN "publishing" ELSE package.state
           accepted == recorded => worker.package.state \in {"publishing", "verifying"}
           saves == recorded \/ worker.began
           passes == /\ accepted /\ admitted /\ PublicationGuard(pub)
                     /\ saves => PackageMoves(from, state)
           halted == [publication EXCEPT !.state = "halted"]
<1>1. /\ worker' = Idle
      /\ package' = (IF passes /\ saves THEN new ELSE package)
      /\ publication' = (IF passes THEN pub
                         ELSE IF ~accepted /\ publication.state \in {"pending", "running"}
                              THEN halted ELSE publication)
      /\ steps' = (IF passes THEN rows ELSE steps)
      /\ registered' = (IF passes THEN known ELSE registered)
      /\ UNCHANGED <<attempts, request, promised, crashes, window, barred, travelling,
                     remote, refusedSteps, serving, sends>>
  BY DEF Conclude, worldVars
<1>2. worker \in Ticks /\ new \in PackageRow /\ new.state = state
  BY TickAt DEF Ticks, PackageRow
<1>3. /\ publication.state # "none" /\ worker.publication.tree = publication.tree
      /\ package.state \in Early => publication.state \in Open /\ ~worker.proposal
      /\ worker.began => worker.package.state = "publishing" /\ package.state = "approved"
  BY DEF SagaInv, WorkerInv
<1>4. /\ halted.tree = publication.tree /\ halted.cursor = publication.cursor
      /\ halted.state = "halted"
  BY PublicationFields DEF SagaTypeOK
<1>h. publication.state \in {"pending", "running"} => halted \in PublicationRow
  <2>1. "halted" \in PublicationStates \ {"completed"}
    BY DEF PublicationStates
  <2> QED
    BY <2>1, PublicationFields DEF SagaTypeOK, PublicationRow
<1>c. passes /\ publication.state = "completed" => pub.state = "completed"
  BY DEF PublicationGuard, PublicationTransitions, PublicationStates
<1>5. passes /\ saves =>
          state \in Late /\ (package.state = "approved" \/ package.state \notin Early)
  <2>1. CASE worker.began
    BY <1>3, <2>1 DEF Late
  <2>2. CASE ~worker.began
    <3> SUFFICES ASSUME passes, saves
                 PROVE  state \in Late /\ package.state \notin Early
      OBVIOUS
    <3>1. PackageMoves(package.state, state) /\ state \in Late \ {"publishing"}
      BY <2>2
    <3>2. package.state \in PackageStates
      BY DEF SagaTypeOK, PackageRow
    <3>3. package.state \in Early =>
              package.state \in {"proposed", "rejected", "approved", "invalidated"}
      BY DEF Early
    <3> QED
      BY <3>1, <3>2, <3>3, PackageMoved DEF Late
  <2> QED
    BY <2>1, <2>2
<1>6. state \in Late => state \notin Early
  BY DEF Late, Early
<1>7. passes => admitted
  OBVIOUS
<1> HIDE DEF new, accepted, saves, passes, halted
<1>8. package' = package \/ (/\ package' \in PackageRow /\ package'.state \notin Early
                             /\ (package.state = "approved" \/ package.state \notin Early))
  BY <1>1, <1>2, <1>5, <1>6
<1>9. /\ publication' \in PublicationRow /\ publication'.tree = publication.tree
      /\ publication'.state # "none"
      /\ publication.state = "completed" => publication'.state = "completed"
  BY <1>1, <1>3, <1>4, <1>h, <1>c DEF SagaTypeOK
<1>10. /\ steps' \in [StepIndexes -> StepRow]
       /\ \A j \in StepIndexes :
             /\ Done(j) => steps'[j].state = "done"
             /\ steps'[j].state = "done" => remote[j] # NoTree
             /\ steps'[j].proposal => steps[j].proposal \/ worker.proposal
       /\ \A j \in 1..(publication'.cursor - 1) : steps'[j].state = "done"
  <2>1. CASE passes
    BY <1>1, <1>7, <2>1
  <2>2. CASE ~passes
    <3>1. steps' = steps /\ publication'.cursor = publication.cursor
      BY <1>1, <1>4, <2>2
    <3>2. \A j \in StepIndexes : Done(j) => remote[j] # NoTree
      BY DEF SagaInv, StepsInv
    <3>3. \A j \in 1..(publication.cursor - 1) : Done(j)
      BY DEF SagaInv, StepsInv
    <3> QED
      BY <3>1, <3>2, <3>3 DEF SagaTypeOK, Done
  <2> QED
    BY <2>1, <2>2
<1>11. SagaTypeOK'
  <2>1. package' \in PackageRow
    BY <1>8 DEF SagaTypeOK
  <2>2. registered' \subseteq Creating /\ worker' \in WorkerState
    BY <1>1 DEF SagaTypeOK, WorkerState
  <2> QED
    BY <1>1, <1>9, <1>10, <2>1, <2>2 DEF SagaTypeOK
<1>12. RowsInv'
  <2>1. package.state \notin {"proposed", "rejected"}
    BY <1>3 DEF SagaInv, RowsInv
  <2>2. CASE package' = package
    BY <1>3, <1>9, <2>1, <2>2 DEF SagaInv, RowsInv, Early
  <2>3. CASE package'.state \notin Early
    BY <1>9, <2>3 DEF RowsInv, Early
  <2> QED
    BY <1>8, <2>2, <2>3
<1>13. RequestInv'
  BY <1>1, <1>8, <1>9 DEF SagaInv, RequestInv, Early
<1>14. WorkerInv'
  BY <1>1 DEF WorkerInv
<1>15. StepsInv'
  <2>1. ~(worker' # Idle)
    BY <1>1
  <2>2. request # NoRequest => 1..(request.publication.cursor - 1) \subseteq StepIndexes
    BY BeforeCursor DEF SagaTypeOK, RequestState
  <2>4. request' # NoRequest => \A j \in 1..(request'.publication.cursor - 1) : Done(j)'
    BY <1>1, <1>10, <2>2 DEF SagaInv, StepsInv, Done
  <2>5. package'.state \in Early => \A j \in StepIndexes : ~steps'[j].proposal
    BY <1>3, <1>8, <1>10 DEF SagaInv, StepsInv
  <2>6. \A j \in StepIndexes : Done(j)' \/ attempts'[j] = "executed" => remote'[j] # NoTree
    BY <1>1, <1>10 DEF SagaInv, StepsInv, Done
  <2>7. \A j \in 1..(publication'.cursor - 1) : Done(j)'
    BY <1>10 DEF Done
  <2> QED
    BY <2>1, <2>4, <2>5, <2>6, <2>7 DEF StepsInv
<1>16. EarlyInv' /\ PromisedInv'
  BY <1>1, <1>8 DEF SagaInv, EarlyInv, PromisedInv, Early
<1>17. SignedTreeInOrder'
  BY <1>1, <1>9 DEF SagaInv, SignedTreeInOrder
<1> QED
  BY <1>11, <1>12, <1>13, <1>14, <1>15, <1>16, <1>17 DEF SagaInv


\* A halt of the publication.
LEMMA HaltKeeps ==
    ASSUME SagaTypeOK, SagaInv, worker # Idle, NEW rows, NEW known \in SUBSET Creating,
           NEW admitted \in BOOLEAN, HaltPublication(rows, known, admitted),
           admitted => /\ rows \in [StepIndexes -> StepRow]
                       /\ \A j \in StepIndexes :
                             /\ Done(j) => rows[j].state = "done"
                             /\ rows[j].state = "done" => remote[j] # NoTree
                             /\ rows[j].proposal => steps[j].proposal \/ worker.proposal
    PROVE  SagaTypeOK' /\ SagaInv'
<1> DEFINE pub == [worker.publication EXCEPT !.state = "halted"]
           state == HaltedState(rows)
<1>1. state \in PackageStates /\ state \in Late \ {"publishing"}
  BY DEF HaltedState, PackageStates, Late
<1>2. /\ pub \in PublicationRow /\ pub.tree = worker.publication.tree
      /\ pub.state = "halted" /\ pub.cursor = Cursor
  <2>1. "halted" \in PublicationStates \ {"completed"}
    BY DEF PublicationStates
  <2> QED
    BY <2>1, TickAt DEF Ticks, OngoingRow, PublicationRow, Cursor
<1>3. Conclude(state, TRUE, pub, rows, known, admitted)
  BY DEF HaltPublication
<1>4. \A j \in 1..(Cursor - 1) : j \in StepIndexes /\ Done(j)
  BY PlanHasSteps, TickAt DEF SagaInv, StepsInv, StepIndexes
<1> HIDE DEF pub, state
<1> QED
  BY <1>1, <1>2, <1>3, <1>4, ConcludeKeeps

\* The worker halts before a step: nothing but the halt is written.
LEMMA HaltBeforeKeeps ==
    ASSUME SagaTypeOK, SagaInv, HaltBeforeStep
    PROVE  SagaTypeOK' /\ SagaInv'
<1>1. worker # Idle
  BY TickUnderWay DEF HaltBeforeStep, SagaTypeOK
<1>2. HaltPublication(steps, registered, TRUE)
  BY DEF HaltBeforeStep
<1>3. /\ steps \in [StepIndexes -> StepRow] /\ registered \in SUBSET Creating
      /\ \A j \in StepIndexes : Done(j) => remote[j] # NoTree
  BY DEF SagaTypeOK, SagaInv, StepsInv
<1> QED
  BY <1>1, <1>2, <1>3, HaltKeeps DEF Done

\* What a step came to is filed.
LEMMA FilesKeep ==
    ASSUME SagaTypeOK, SagaInv, NEW i \in StepIndexes, FileOutcome(i)
    PROVE  SagaTypeOK' /\ SagaInv'
<1> DEFINE outcome == worker.outcome
           rows == [steps EXCEPT ![i] = [state    |-> Filed(i, outcome),
                                         proposal |-> worker.proposal]]
           filed == FilingAdmitted(i, outcome)
           state == worker.package.state
<1>1. worker.pc = "answered" /\ i = Cursor
  BY DEF FileOutcome
<1>2. worker # Idle
  BY <1>1, TickUnderWay DEF SagaTypeOK
<1>3. /\ worker \in Ticks /\ outcome \in Outcomes /\ worker.proposal \in BOOLEAN
      /\ state \in PackageStates
  BY <1>2, TickAt DEF Ticks, PackageRow
<1>4. outcome = "done" => remote[i] # NoTree
  BY <1>1, <1>2 DEF SagaInv, WorkerInv
<1>5. filed \in BOOLEAN
  BY DEF FilingAdmitted, StepGuard
<1>6. filed => /\ rows \in [StepIndexes -> StepRow]
               /\ \A j \in StepIndexes :
                     /\ Done(j) => rows[j].state = "done"
                     /\ rows[j].state = "done" => remote[j] # NoTree
                     /\ rows[j].proposal => steps[j].proposal \/ worker.proposal
               /\ outcome = "done" => rows[i].state = "done"
  <2> SUFFICES ASSUME filed
               PROVE  /\ rows \in [StepIndexes -> StepRow]
                      /\ \A j \in StepIndexes :
                            /\ Done(j) => rows[j].state = "done"
                            /\ rows[j].state = "done" => remote[j] # NoTree
                            /\ rows[j].proposal => steps[j].proposal \/ worker.proposal
                      /\ outcome = "done" => rows[i].state = "done"
    OBVIOUS
  <2>1. /\ Filed(i, outcome) \in StepStates \ {"running"} /\ ~Done(i)
        /\ Filed(i, outcome) = "done" <=> outcome = "done"
    BY <1>3, FiledIsAStep DEF SagaTypeOK, Done
  <2>2. \A j \in StepIndexes :
            rows[j] = IF j = i THEN [state |-> Filed(i, outcome), proposal |-> worker.proposal]
                      ELSE steps[j]
    BY DEF SagaTypeOK
  <2>3. rows \in [StepIndexes -> StepRow]
    BY <1>3, <2>1 DEF SagaTypeOK, StepRow
  <2>4. \A j \in StepIndexes : Done(j) => remote[j] # NoTree
    BY DEF SagaInv, StepsInv
  <2> QED
    BY <1>4, <2>1, <2>2, <2>3, <2>4 DEF Done
<1>7. \A j \in 1..(i - 1) : j \in StepIndexes /\ Done(j)
  BY <1>1, <1>2, PlanHasSteps DEF SagaInv, StepsInv, StepIndexes
<1>8. registered \in SUBSET Creating /\ registered \cup ({i} \cap Creating) \in SUBSET Creating
  BY DEF SagaTypeOK
<1>9. CASE outcome = "done"
  <2>1. PICK missing \in MissingEntity(i) :
            IF missing THEN HaltPublication(rows, registered, filed)
            ELSE Conclude(IF i = Activation THEN "published" ELSE state,
                          i = Activation, Advanced(i), rows,
                          registered \cup ({i} \cap Creating), filed)
    BY <1>9 DEF FileOutcome
  <2>2. CASE missing
    <3>1. HaltPublication(rows, registered, filed)
      BY <2>1, <2>2
    <3> HIDE DEF rows, filed
    <3> QED
      BY <1>2, <1>5, <1>6, <1>8, <3>1, HaltKeeps
  <2>3. CASE ~missing
    <3> DEFINE pub == Advanced(i)
               next == IF i = Activation THEN "published" ELSE state
               known == registered \cup ({i} \cap Creating)
               last == i = Activation
    <3>1. Conclude(next, last, pub, rows, known, filed)
      BY <2>1, <2>3
    <3>2. /\ pub \in PublicationRow /\ pub.tree = worker.publication.tree /\ pub.state # "none"
          /\ pub.cursor = i + 1
      <4>1. /\ worker.publication \in OngoingRow
            /\ {"running", "completed"} \subseteq PublicationStates
        BY <1>3 DEF Ticks, PublicationStates
      <4>2. CASE i = Activation
        <5>1. i + 1 = Len(Plan) + 1
          BY <4>2 DEF Activation
        <5>2. pub \in CompletedRow /\ pub.tree = worker.publication.tree
              /\ pub.state = "completed" /\ pub.cursor = i + 1
          BY <4>1, <4>2, <5>1 DEF Advanced, OngoingRow, CompletedRow
        <5> QED
          BY <5>2 DEF PublicationRow
      <4>3. CASE i # Activation
        <5>1. i + 1 \in StepIndexes
          BY <4>3, PlanHasSteps DEF StepIndexes, Activation
        <5>2. pub \in OngoingRow /\ pub.tree = worker.publication.tree
              /\ pub.state = "running" /\ pub.cursor = i + 1
          BY <4>1, <4>3, <5>1 DEF Advanced, OngoingRow
        <5> QED
          BY <5>2 DEF PublicationRow
      <4> QED
        BY <4>2, <4>3
    <3>3. /\ next \in PackageStates /\ last \in BOOLEAN
          /\ IF last THEN next \in Late \ {"publishing"} ELSE next = worker.package.state
      BY <1>3 DEF PackageStates, Late
    <3>4. filed => \A j \in 1..(pub.cursor - 1) : rows[j].state = "done"
      <4> SUFFICES ASSUME filed, NEW j \in 1..(pub.cursor - 1) PROVE rows[j].state = "done"
        OBVIOUS
      <4>1. i \in Nat /\ j \in Nat /\ j >= 1 /\ pub.cursor = i + 1
        BY <3>2, PlanHasSteps DEF StepIndexes
      <4>2. j \in 1..(i - 1) \/ j = i
        <5> HIDE DEF pub
        <5> QED
          BY <4>1
      <4> QED
        BY <1>6, <1>7, <1>9, <4>2
    <3> HIDE DEF rows, filed, pub, next, known, last
    <3>5. known \in SUBSET Creating
      BY <1>8 DEF known
    <3> QED
      BY <1>2, <1>5, <1>6, <3>1, <3>2, <3>3, <3>4, <3>5, ConcludeKeeps
  <2> QED
    BY <2>2, <2>3
<1>10. CASE outcome = "unknown"
  <2> DEFINE pub == [worker.publication EXCEPT !.state = "running"]
             next == IF state = "publishing" THEN "verifying" ELSE state
             doubt == state = "publishing"
  <2>1. Conclude(next, doubt, pub, rows, registered, filed)
    BY <1>10 DEF FileOutcome
  <2>2. /\ pub \in PublicationRow /\ pub.tree = worker.publication.tree /\ pub.state # "none"
        /\ pub.cursor = i
    <3>1. "running" \in PublicationStates \ {"completed"}
      BY DEF PublicationStates
    <3> QED
      BY <1>1, <1>3, <3>1 DEF Ticks, OngoingRow, PublicationRow, Cursor
  <2>3. /\ next \in PackageStates /\ doubt \in BOOLEAN
        /\ IF doubt THEN next \in Late \ {"publishing"} ELSE next = worker.package.state
    BY <1>3 DEF PackageStates, Late
  <2>4. filed => \A j \in 1..(pub.cursor - 1) : rows[j].state = "done"
    BY <1>6, <1>7, <2>2
  <2> HIDE DEF rows, filed, pub, next, doubt
  <2> QED
    BY <1>2, <1>5, <1>6, <1>8, <2>1, <2>2, <2>3, <2>4, ConcludeKeeps
<1>11. CASE outcome \notin {"done", "unknown"}
  <2>1. HaltPublication(rows, registered, filed)
    BY <1>11 DEF FileOutcome
  <2> HIDE DEF rows, filed
  <2> QED
    BY <1>2, <1>5, <1>6, <1>8, <2>1, HaltKeeps
<1> QED
  BY <1>9, <1>10, <1>11

-----------------------------------------------------------------------------
(* PackagePublication: what a request writes, and the theorems. *)

\* A request writes rows it read: the early ones are the rows there are, over a
\* late one only a late one passes, and the signed tree is not exchanged.
LEMMA RequestWritesKeeps ==
    ASSUME SagaTypeOK, SagaInv, RequestWrites
    PROVE  SagaTypeOK' /\ SagaInv'
<1> DEFINE read == request.package
           wanted == request.publication
           Kept == /\ package'.state \in Early => package.state \in Early
                   /\ \A j \in 1..(publication'.cursor - 1) : Done(j)
                   /\ publication'.tree = publication.tree \/ publication.tree = NoTree
                   /\ promised' => package'.state = "invalidated"
                   /\ RowsInv' /\ WorkerInv'
<1>1. /\ request # NoRequest /\ request' = NoRequest
      /\ publication' = RequestedPublication /\ promised' = (promised \/ request.op = "cancel")
      /\ UNCHANGED <<steps, attempts, registered, worker, crashes, window, barred,
                     travelling, remote, refusedSteps, serving, sends>>
  BY DEF RequestWrites, worldVars
<1>2. /\ package' \in RequestedPackage /\ PackageMoves(package.state, package'.state)
      /\ request.op = "approve" => publication.state = "none"
      /\ PublicationGuard(RequestedPublication)
  BY DEF RequestWrites, PackageGuard
<1>3. package' \in PackageRow /\ publication' \in PublicationRow
  BY <1>1, <1>2, RequestedRows DEF SagaInv
<1>4. /\ request.op \in Requests /\ read \in PackageRow /\ wanted \in PublicationRow
      /\ package \in PackageRow /\ publication \in PublicationRow
  BY <1>1, PlanHasSteps DEF SagaTypeOK, RequestState
<1>5. worker # Idle => /\ ~worker.began /\ publication.state # "none"
                       /\ worker.publication.tree = publication.tree
                       /\ package.state \in Early => worker.locked /\ publication.state \in Open
  BY DEF RequestWrites, PackageLocked, PublicationLocked, SagaInv, WorkerInv
<1>6. /\ package.state \in PackageStates /\ package'.state \in PackageStates
      /\ read.state \in PackageStates
  BY <1>3, <1>4 DEF PackageRow
<1>7. /\ package.state \in Late => package'.state \in Late \cup {"proposed"}
      /\ \A state \in PackageStates : state \in Late <=> state \notin Early
  BY <1>2, <1>6, PackageMoved DEF Late, Early, PackageStates
<1>8. /\ publication.state = "none" <=> package.state \in {"proposed", "rejected"}
      /\ publication.state = "none" => publication.tree = NoTree
      /\ package.state = "approved" => package.tree = publication.tree
      /\ package.state = "invalidated" /\ publication.state \in Open =>
             package.tree # publication.tree
      /\ promised => package.state = "invalidated"
      /\ \A j \in 1..(publication.cursor - 1) : Done(j)
  BY DEF SagaInv, RowsInv, StepsInv, PromisedInv
<1>9. /\ request.op \in {"approve", "reject"} => read.state = "proposed"
      /\ request.op = "replace" => read.state \in {"proposed", "approved"}
      /\ request.op = "cancel" => read.state = "approved"
      /\ request.op = "resume" => read.state \in {"partially_published", "verifying"}
      /\ read.state \in {"proposed", "rejected", "invalidated"} => read = package
      /\ read.state = "approved" => read = package \/ package.state \notin Early
      /\ read.state \notin {"proposed", "rejected"} =>
             publication.state # "none" /\ wanted.tree = publication.tree
      /\ read.state \notin Early => package.state \notin Early
      /\ \A j \in 1..(wanted.cursor - 1) : Done(j)
  BY <1>1 DEF SagaInv, RequestInv, StepsInv
<1> HIDE DEF read, wanted
<1>10. ASSUME package' = package, publication' = publication, promised' = promised
       PROVE  Kept
  <2>1. RowsInv'
    BY <1>10 DEF SagaInv, RowsInv
  <2>2. WorkerInv'
    BY <1>1, <1>10 DEF SagaInv, WorkerInv, Cursor
  <2> QED
    BY <1>8, <1>10, <2>1, <2>2
<1>11. ASSUME package.state \notin Early, package'.state \notin Early,
              publication'.tree = publication.tree, publication'.state # "none",
              promised' = promised, \A j \in 1..(publication'.cursor - 1) : Done(j)
       PROVE  Kept
  <2>1. RowsInv'
    BY <1>11 DEF RowsInv, Early
  <2>2. WorkerInv'
    BY <1>1, <1>5, <1>11 DEF SagaInv, WorkerInv, Cursor, Early
  <2>3. ~promised
    BY <1>8, <1>11 DEF Early
  <2> QED
    BY <1>11, <2>1, <2>2, <2>3
<1>12. ASSUME request.op = "context"
       PROVE  Kept
  <2>1. /\ package' = read /\ publication' = publication /\ promised' = promised
    BY <1>1, <1>2, <1>12 DEF RequestedPackage, RequestedPublication, read, SagaTypeOK
  <2>2. CASE read.state \in Early
    <3>1. read = package
      BY <1>6, <1>7, <1>9, <2>1, <2>2 DEF Early
    <3> QED
      BY <1>10, <2>1, <3>1
  <2>3. CASE read.state \notin Early
    <3>1. package.state \notin Early /\ publication.state # "none"
      BY <1>9, <2>3 DEF Early
    <3> QED
      BY <1>8, <1>11, <2>1, <2>3, <3>1
  <2> QED
    BY <2>2, <2>3
<1>13. ASSUME request.op = "reject" \/ (request.op = "replace" /\ read.state = "proposed")
       PROVE  Kept
  <2>1. read = package /\ package.state = "proposed" /\ publication.state = "none"
    BY <1>8, <1>9, <1>13
  <2>2. publication' = publication /\ promised' = promised
    BY <1>1, <1>13 DEF RequestedPublication, SagaTypeOK
  <2>3. package'.state \in {"proposed", "rejected"}
    BY <1>2, <1>4, <1>13 DEF RequestedPackage, PackageRow, read
  <2>4. worker = Idle
    BY <1>5, <2>1
  <2>5. RowsInv'
    BY <1>8, <2>1, <2>2, <2>3 DEF RowsInv
  <2>6. WorkerInv'
    BY <1>1, <2>4 DEF WorkerInv
  <2> QED
    BY <1>8, <2>1, <2>2, <2>5, <2>6 DEF Early
<1>14. ASSUME request.op = "approve"
       PROVE  Kept
  <2>1. read = package /\ package.state = "proposed" /\ publication.state = "none"
    BY <1>8, <1>9, <1>14
  <2>2. publication' = [state |-> "pending", cursor |-> 1, tree |-> package.tree]
        /\ promised' = promised
    BY <1>1, <1>14, <2>1 DEF RequestedPublication, SagaTypeOK, read
  <2>3. package'.state = "approved" /\ package'.tree = package.tree
    BY <1>2, <1>4, <1>14, <2>1 DEF RequestedPackage, PackageRow, read
  <2>4. worker = Idle
    BY <1>5, <2>1
  <2>5. RowsInv'
    BY <2>2, <2>3 DEF RowsInv
  <2>6. WorkerInv'
    BY <1>1, <2>4 DEF WorkerInv
  <2> QED
    BY <1>8, <2>1, <2>2, <2>3, <2>5, <2>6 DEF Early
<1>15. ASSUME request.op = "replace" /\ read.state = "approved"
       PROVE  Kept
  <2>1. publication' = publication /\ promised' = promised
    BY <1>1, <1>15 DEF RequestedPublication, SagaTypeOK
  <2>2. PICK t \in Trees \ {read.tree} : package' = [state |-> "invalidated", tree |-> t]
    BY <1>2, <1>15 DEF RequestedPackage, read
  <2>3. read = package /\ package.state = "approved"
    BY <1>6, <1>7, <1>9, <1>15, <2>2 DEF Late
  <2>4. package'.state = "invalidated" /\ package'.tree # publication.tree
    BY <1>8, <2>2, <2>3
  <2>5. RowsInv'
    BY <1>8, <2>1, <2>3, <2>4 DEF RowsInv
  <2>6. WorkerInv'
    BY <1>1, <1>5, <2>1, <2>3, <2>4 DEF SagaInv, WorkerInv, Cursor, Early
  <2> QED
    BY <1>8, <2>1, <2>3, <2>4, <2>5, <2>6 DEF Early
<1>16. ASSUME request.op = "cancel"
       PROVE  Kept
  <2>1. publication' = [wanted EXCEPT !.state = "halted"]
    BY <1>1, <1>16 DEF RequestedPublication, wanted
  <2>2. package' = [read EXCEPT !.state = "invalidated"]
    BY <1>2, <1>16 DEF RequestedPackage, read
  <2>3. package'.state = "invalidated"
    BY <1>4, <2>2 DEF PackageRow
  <2>4. read = package /\ package.state = "approved"
    BY <1>6, <1>7, <1>9, <1>16, <2>3 DEF Late
  <2>5. worker = Idle
    BY <1>5, <1>16, <2>4 DEF RequestWrites, PublicationLocked, Early
  <2>6. /\ publication'.state = "halted" /\ publication'.cursor = wanted.cursor
        /\ publication'.tree = publication.tree
    BY <1>4, <1>9, <1>16, <2>1, PublicationFields
  <2>7. RowsInv'
    BY <1>8, <2>3, <2>4, <2>6 DEF RowsInv, Open
  <2>8. WorkerInv'
    BY <1>1, <2>5 DEF WorkerInv
  <2> QED
    BY <1>9, <2>3, <2>4, <2>6, <2>7, <2>8 DEF Early
<1>17. ASSUME request.op = "resume"
       PROVE  Kept
  <2>1. /\ publication' = [wanted EXCEPT !.state = "running"] /\ promised' = promised
    BY <1>1, <1>17 DEF RequestedPublication, wanted, SagaTypeOK
  <2>2. package.state \notin Early /\ wanted.tree = publication.tree
    BY <1>9, <1>17 DEF Early
  <2>3. package' = package \/ package'.state = "publishing"
    BY <1>2, <1>4, <1>17 DEF RequestedPackage, PackageRow, read
  <2>4. package'.state \notin Early
    BY <2>2, <2>3 DEF Early
  <2>5. /\ publication'.state = "running" /\ publication'.cursor = wanted.cursor
        /\ publication'.tree = publication.tree
    BY <1>4, <2>1, <2>2, PublicationFields
  <2> QED
    BY <1>9, <1>11, <2>1, <2>2, <2>4, <2>5
<1>18. Kept
  BY <1>4, <1>9, <1>12, <1>13, <1>14, <1>15, <1>16, <1>17 DEF Requests
<1> HIDE DEF Kept
<1>19. SagaTypeOK'
  BY <1>1, <1>3 DEF SagaTypeOK, RequestState
<1>20. RequestInv'
  BY <1>1 DEF RequestInv
<1>21. RowsInv' /\ WorkerInv' /\ PromisedInv'
  BY <1>18 DEF Kept, PromisedInv
<1>22. StepsInv'
  BY <1>1, <1>18 DEF Kept, SagaInv, StepsInv, Done, Cursor
<1>23. EarlyInv'
  BY <1>1, <1>18 DEF Kept, SagaInv, EarlyInv
<1>24. SignedTreeInOrder'
  BY <1>1, <1>18, PlanHasSteps DEF Kept, SagaInv, SignedTreeInOrder
<1> QED
  BY <1>19, <1>20, <1>21, <1>22, <1>23, <1>24 DEF SagaInv

\* Every step of the saga keeps the types and what the rows know of each other.
LEMMA SagaNextInv == SagaTypeOK /\ SagaInv /\ [SagaNext]_sagaVars => SagaTypeOK' /\ SagaInv'
<1> SUFFICES ASSUME SagaTypeOK, SagaInv, [SagaNext]_sagaVars PROVE SagaTypeOK' /\ SagaInv'
  OBVIOUS
<1>1. CASE UNCHANGED sagaVars
  <2>1. SagaTypeOK'
    BY <1>1 DEF SagaTypeOK, sagaVars
  <2>2. RowsInv' /\ RequestInv' /\ EarlyInv' /\ PromisedInv' /\ SignedTreeInOrder'
    BY <1>1 DEF SagaInv, RowsInv, RequestInv, EarlyInv, PromisedInv, SignedTreeInOrder, sagaVars
  <2>3. WorkerInv' /\ StepsInv'
    BY <1>1 DEF SagaInv, WorkerInv, Cursor, StepsInv, Done, sagaVars
  <2> QED
    BY <2>1, <2>2, <2>3 DEF SagaInv
<1>2. CASE (\E op \in OwnerOps : RequestReads(op)) \/ RequestFails
  BY <1>2, RequestReadsKeeps
<1>3. CASE RequestWrites
  BY <1>3, RequestWritesKeeps
<1>4. CASE WorkerRaises \/ WorkerCrashes
  BY <1>4, TickLost
<1>5. CASE PauseCampaign \/ ToggleBar \/ TimePasses
  BY <1>5, WorldTurns
<1>6. CASE PlatformApplies \/ PlatformRefuses
  BY <1>6, PlatformKeeps
<1>7. CASE WorkerReads
  BY <1>7, ReadsKeeps
<1>8. CASE WorkerBegins
  BY <1>8, BeginsKeeps
<1>9. CASE HaltBeforeStep
  BY <1>9, HaltBeforeKeeps
<1>10. ASSUME NEW i \in StepIndexes, UploadCreative(i)
       PROVE  SagaTypeOK' /\ SagaInv'
  BY <1>10, UploadKeeps
<1>11. ASSUME NEW i \in StepIndexes, ExecutorDenies(i) \/ ChokepointRefuses(i) \/ Hear(i)
       PROVE  SagaTypeOK' /\ SagaInv'
  BY <1>11, AnswersKeep
<1>12. ASSUME NEW i \in StepIndexes, GatesCommit(i)
       PROVE  SagaTypeOK' /\ SagaInv'
  BY <1>12, GatesKeep
<1>13. ASSUME NEW i \in StepIndexes, SendStep(i)
       PROVE  SagaTypeOK' /\ SagaInv'
  BY <1>13, SendKeeps
<1>14. ASSUME NEW i \in StepIndexes, Reconcile(i)
       PROVE  SagaTypeOK' /\ SagaInv'
  BY <1>14, ReconcileKeeps
<1>15. ASSUME NEW i \in StepIndexes, FileOutcome(i)
       PROVE  SagaTypeOK' /\ SagaInv'
  BY <1>15, FilesKeep
<1> QED
  BY <1>1, <1>2, <1>3, <1>4, <1>5, <1>6, <1>7, <1>8, <1>9, <1>10, <1>11, <1>12, <1>13, <1>14,
     <1>15 DEF SagaNext, WorkerTick

\* Every variable keeps its type: the cursor of a publication has left the plan
\* just when it is completed, whatever rows a tick or a request read before and
\* writes back (_halt, _advance and the guards of 0042_campaign_packages).
THEOREM PublicationTypes == SagaSpec => []SagaTypeOK
BY SagaInitInv, SagaNextInv, PTL DEF SagaSpec

\* Whatever reaches the platform is of the tree the owner signed, and everything
\* before it in the plan is there already: whatever edits, undoes, resumptions,
\* crashes and lost answers come between (RunPackagePublication).
THEOREM PublicationSignedTree == SagaSpec => []SignedTreeInOrder
<1>1. SagaInv => SignedTreeInOrder
  BY DEF SagaInv
<1> QED
  BY <1>1, SagaInitInv, SagaNextInv, PTL DEF SagaSpec

\* When the owner has been told that nothing was created, nothing visible was
\* sent, nor will be (CancelPackagePublication).
THEOREM PublicationPromise == SagaSpec => []PromiseKept
<1>1. SagaInv => PromiseKept
  BY DEF SagaInv, PromisedInv, EarlyInv, PromiseKept, Early
<1> QED
  BY <1>1, SagaInitInv, SagaNextInv, PTL DEF SagaSpec

-----------------------------------------------------------------------------
(* PackagePublication: one request per step. *)

\* A step whose key has no attempt was never sent, and one behind its gates is
\* sent for the first time.
SendsInv ==
    /\ \A i \in Visible : sends[i] <= 1 /\ (attempts[i] = "none" => sends[i] = 0)
    /\ worker.pc = "gated" => sends[Cursor] = 0 /\ attempts[Cursor] # "none"

\* A step that sends nothing, and forgets no attempt.
LEMMA NothingSent ==
    ASSUME SendsInv, UNCHANGED sends,
           \A i \in Visible : attempts'[i] = "none" => attempts[i] = "none",
           worker'.pc # "gated" \/ UNCHANGED <<worker, attempts>>
    PROVE  SendsInv'
BY DEF SendsInv, Cursor

\* No step of the saga sends a second request for a visible step.
LEMMA SendsKept ==
    ASSUME SagaTypeOK, SagaInv, SendsInv, [SagaNext]_sagaVars
    PROVE  SendsInv'
<1>0. worker.pc # "idle" => worker \in Ticks /\ Cursor \in StepIndexes
  BY TickAt, TickUnderWay DEF SagaTypeOK
<1>1. Visible \subseteq StepIndexes
  BY DEF Visible
<1>2. CASE UNCHANGED <<worker, attempts, sends>>
  BY <1>2, NothingSent
<1>3. CASE WorkerRaises \/ WorkerCrashes \/ HaltBeforeStep \/ WorkerReads
  <2>1. UNCHANGED <<attempts, sends>> /\ worker'.pc # "gated"
    BY <1>3 DEF WorkerRaises, WorkerCrashes, HaltBeforeStep, HaltPublication, Conclude, WorkerReads,
                worldVars, Idle
  <2> QED
    BY <2>1, NothingSent
<1>4. CASE WorkerBegins
  <2>1. UNCHANGED <<attempts, sends>> /\ worker.pc = "read"
    BY <1>4 DEF WorkerBegins, worldVars
  <2>2. worker'.pc = "begun"
    BY <1>0, <1>4, <2>1 DEF WorkerBegins, Ticks
  <2> QED
    BY <2>1, <2>2, NothingSent
<1>5. ASSUME NEW i \in StepIndexes, FileOutcome(i)
      PROVE  SendsInv'
  <2>1. UNCHANGED <<attempts, sends>> /\ worker' = Idle
    <3>1. worker.outcome = "done" \/ worker.outcome = "unknown"
          \/ worker.outcome \notin {"done", "unknown"}
      OBVIOUS
    <3> QED
      BY <1>5, <3>1 DEF FileOutcome, HaltPublication, Conclude, worldVars
  <2>2. worker'.pc # "gated"
    BY <2>1 DEF Idle
  <2> QED
    BY <2>1, <2>2, NothingSent
<1>6. ASSUME NEW i \in StepIndexes, ExecutorDenies(i) \/ ChokepointRefuses(i) \/ Hear(i)
      PROVE  SendsInv'
  <2>1. UNCHANGED sends /\ worker.pc \in {"begun", "gated", "sent"}
    BY <1>6 DEF ExecutorDenies, ChokepointRefuses, Hear, MayStep, worldVars
  <2>2. worker'.pc = "answered"
    <3>1. PICK outcome, with : Answered(i, outcome, with)
      BY <1>6 DEF ExecutorDenies, ChokepointRefuses, Hear
    <3> QED
      BY <1>0, <2>1, <3>1 DEF Answered, Ticks
  <2>3. \/ attempts' = attempts
        \/ \E status : status # "none" /\ attempts' = [attempts EXCEPT ![i] = status]
    <3>1. \A outcome \in Knowable(i) : StatusOf(outcome) # "none"
      BY DEF Knowable, StatusOf
    <3>2. CASE ExecutorDenies(i)
      BY <3>2 DEF ExecutorDenies
    <3>3. CASE ChokepointRefuses(i)
      BY <3>3 DEF ChokepointRefuses
    <3>4. CASE Hear(i)
      BY <3>1, <3>4 DEF Hear
    <3> QED
      BY <1>6, <3>2, <3>3, <3>4
  <2>4. \A j \in Visible : attempts'[j] = "none" => attempts[j] = "none"
    BY <1>1, <2>3 DEF SagaTypeOK
  <2> QED
    BY <2>1, <2>2, <2>4, NothingSent
<1>7. ASSUME NEW i \in StepIndexes, Reconcile(i)
      PROVE  SendsInv'
  <2>1. UNCHANGED sends /\ worker.pc = "begun"
    BY <1>7 DEF Reconcile, MayStep, worldVars
  <2>2. worker'.pc = "answered"
    BY <1>0, <1>7, <2>1 DEF Reconcile, Answered, Ticks
  <2>3. \/ attempts' = attempts
        \/ \E status : status # "none" /\ attempts' = [attempts EXCEPT ![i] = status]
    BY <1>7 DEF Reconcile, Knowable, StatusOf
  <2>4. \A j \in Visible : attempts'[j] = "none" => attempts[j] = "none"
    BY <1>1, <2>3 DEF SagaTypeOK
  <2> QED
    BY <2>1, <2>2, <2>4, NothingSent
<1>8. ASSUME NEW i \in StepIndexes, UploadCreative(i)
      PROVE  SendsInv'
  <2>1. /\ UNCHANGED <<attempts, sends>>
        /\ worker' = [worker EXCEPT !.pc = "sent"] /\ worker.pc = "begun"
    BY <1>8 DEF UploadCreative, MayStep
  <2>2. worker'.pc = "sent"
    BY <1>0, <2>1 DEF Ticks
  <2> QED
    BY <2>1, <2>2, NothingSent
<1>9. ASSUME NEW i \in StepIndexes, GatesCommit(i)
      PROVE  SendsInv'
  <2>1. /\ i \in Visible /\ i = Cursor /\ attempts[i] = "none" /\ UNCHANGED sends
        /\ attempts' = [attempts EXCEPT ![i] = "claimed"] /\ worker.pc = "begun"
        /\ worker' = [worker EXCEPT !.pc = "gated", !.locked = FALSE, !.began = FALSE,
                                    !.proposal = TRUE]
    BY <1>9 DEF GatesCommit, MayStep, Visible, worldVars
  <2>2. Cursor' = i
    BY <1>0, <2>1 DEF Ticks, Cursor
  <2>3. /\ attempts'[i] = "claimed"
        /\ \A j \in Visible : attempts'[j] = "none" => attempts[j] = "none"
    BY <1>1, <2>1 DEF SagaTypeOK
  <2> QED
    BY <2>1, <2>2, <2>3 DEF SendsInv
<1>10. ASSUME NEW i \in StepIndexes, SendStep(i)
       PROVE  SendsInv'
  <2>1. /\ worker.pc = "gated" /\ i = Cursor /\ sends' = [sends EXCEPT ![i] = @ + 1]
        /\ attempts' = [attempts EXCEPT ![i] = "running"]
        /\ worker' = [worker EXCEPT !.pc = "sent"]
    BY <1>10 DEF SendStep
  <2>2. worker'.pc = "sent"
    BY <1>0, <2>1 DEF Ticks
  <2>3. sends[i] = 0
    BY <2>1 DEF SendsInv
  <2>4. \A j \in Visible : IF j = i THEN sends'[j] = 1 /\ attempts'[j] # "none"
                           ELSE sends'[j] = sends[j] /\ attempts'[j] = attempts[j]
    BY <1>1, <2>1, <2>3 DEF SagaTypeOK
  <2> QED
    BY <2>2, <2>4 DEF SendsInv
<1>11. CASE \/ \E op \in OwnerOps : RequestReads(op)
            \/ RequestWrites \/ RequestFails \/ PauseCampaign
            \/ PlatformApplies \/ PlatformRefuses \/ ToggleBar \/ TimePasses
  <2>1. UNCHANGED <<worker, attempts, sends>>
    BY <1>11 DEF RequestReads, RequestWrites, RequestFails, PauseCampaign, PlatformApplies,
                 PlatformRefuses, ToggleBar, TimePasses, worldVars
  <2> QED
    BY <1>2, <2>1
<1>12. CASE UNCHANGED sagaVars
  BY <1>2, <1>12 DEF sagaVars
<1> QED
  BY <1>3, <1>4, <1>5, <1>6, <1>7, <1>8, <1>9, <1>10, <1>11, <1>12 DEF SagaNext, WorkerTick

\* Over any crashes, resumptions and answers that never came, one request leaves
\* the worker for a step at most (the key pkg-<publication>-<step> is stable).
THEOREM PublicationSendsOnce == SagaSpec => []StepSentOnce
<1>1. SagaInit => SendsInv
  BY DEF SagaInit, SendsInv, Idle, Visible
<1>2. SendsInv => StepSentOnce
  BY DEF SendsInv, StepSentOnce
<1>3. SagaTypeOK /\ SagaInv /\ SendsInv /\ [SagaNext]_sagaVars => SendsInv'
  BY SendsKept
<1> QED
  BY <1>1, <1>2, <1>3, SagaInitInv, SagaNextInv, PTL DEF SagaSpec
=============================================================================
