------------------------- MODULE ProposalLifecycle -------------------------
(***************************************************************************)
(* The life of one proposal: the row of proposals that rule cycles, the    *)
(* owner's panel, Telegram and the agent read, change in memory and save   *)
(* whole, without a version; the trigger that admits or refuses the save;  *)
(* the authorization and the execution an approval creates; and the worker *)
(* that runs it.  Each handler is a transaction: one step reads, another   *)
(* saves and commits.  PATCH, the rule cycle, the gates of the worker and  *)
(* the undo of an executed proposal hold the account lock in between.      *)
(*                                                                         *)
(* A diff and its hash are the value proposed.  Approved is a state of the *)
(* row only inside the transaction that goes on to scheduled.              *)
(***************************************************************************)
EXTENDS Integers, FiniteSets

CONSTANTS
    Values,         \* values a proposal may propose for its parameter
    Clerks,         \* concurrent handlers
    Worker,         \* the execution cycle, as holder of the account lock
    Cards,          \* Telegram cards that may be posted
    Nobody,
    MaxExpiry       \* bound: a rule cycle renews expires_at this often

ASSUME ProposalAssumption ==
    /\ Worker \notin Clerks /\ Nobody \notin Clerks \cup {Worker}
    /\ MaxExpiry \in Nat \ {0}

VARIABLES
    row,            \* the row of proposals
    past,           \* expiries that have passed
    clerks,         \* what each handler has read and means to save
    lock,           \* who holds the advisory lock of the account
    attempts,       \* executions: one per diff (idempotency_key is UNIQUE)
    work,           \* the attempt the worker has in hand
    sent,           \* execute_write calls per value
    applied,        \* values the platform has taken
    undone,         \* executions.undone_at of the executed attempt
    restored,       \* compensating proposals created for it
    cards           \* telegram_callbacks

proposalVars == <<row, past, clerks, lock, attempts, work, sent, applied, undone, restored,
                  cards>>
execVars == <<attempts, work, sent, applied>>
undoVars == <<undone, restored>>

Idle == [why |-> "none"]
Live == {"pending", "postponed", "scheduled"}
Final == {"rejected", "expired", "invalidated", "executed", "failed"}
Unresolved == {"reserved", "running", "unknown"}
InFlight == \E v \in Values : attempts[v] \in Unresolved
Overdue(r) == r.expires <= past

ProposalInit ==
    /\ row = [state |-> "absent", value |-> Nobody, expires |-> 1]
    /\ past = 0
    /\ clerks = [c \in Clerks |-> Idle] /\ lock = Nobody
    /\ attempts = [v \in Values |-> "none"]
    /\ work = Idle
    /\ sent = [v \in Values |-> 0] /\ applied = {}
    /\ undone = FALSE /\ restored = 0
    /\ cards = [k \in Cards |-> [state |-> "absent", value |-> Nobody]]

-----------------------------------------------------------------------------
(* The trigger proposals_guard_diff_hash. *)

AllowedFrom(state) ==
    CASE state = "absent"    -> {"pending"}
      [] state = "pending"   -> {"postponed", "approved", "rejected", "expired", "invalidated"}
      [] state = "postponed" -> {"pending", "approved", "rejected", "expired", "invalidated"}
      [] state = "approved"  -> {"scheduled", "executing", "invalidated", "expired"}
      [] state = "scheduled" -> {"executing", "invalidated", "rejected"}
      [] state = "executing" -> {"executed", "failed"}
      [] OTHER -> {}

\* Mutant: the revision gate does not ask what is in flight, or carried out.
ReopensBegun(old, new) ==
    old.state \in {"scheduled", "executing"} /\ new.state = "pending" /\ new.value # old.value

\* The revision gate: an authorized proposal goes back with another value.
Reopens(old, new) ==
    old.state = "scheduled" /\ new.state = "pending" /\ new.value # old.value /\ ~InFlight

Admits(old, new) ==
    \/ new.state = old.state
    \/ new.state \in AllowedFrom(old.state)
    \/ Reopens(old, new)

-----------------------------------------------------------------------------
(* Reads: what a handler will save, decided on the row it has read. *)

Means(c, why, target) ==
    clerks' = [clerks EXCEPT ![c] = [why |-> why, target |-> target, card |-> Nobody]]
Ends(c) == clerks' = [clerks EXCEPT ![c] = Idle]
Free(c) == clerks[c] = Idle

\* ProposeAction of a rule cycle or of the agent, under the account lock: it
\* raises the proposal or brings the equivalent one up to date.
ProposeReads(c, v) ==
    /\ Free(c) /\ lock = Nobody
    /\ row.state \in {"absent", "pending", "postponed"} /\ ~InFlight
    /\ past < MaxExpiry
    /\ Means(c, "propose", [state |-> "pending", value |-> v, expires |-> past + 1])
    /\ lock' = c
    /\ UNCHANGED <<row, past, execVars, undoVars, cards>>

\* PATCH: the account lock, the row read again, and nothing in flight.
EditReads(c, v) ==
    /\ Free(c) /\ lock = Nobody
    /\ row.state \in {"pending", "scheduled"} /\ v # row.value /\ ~InFlight
    /\ Means(c, "edit", [row EXCEPT !.state = "pending", !.value = v])
    /\ lock' = c
    /\ UNCHANGED <<row, past, execVars, undoVars, cards>>

\* PUT owner-context: the note is not modelled, the row it is saved with is.
NoteReads(c) ==
    /\ Free(c) /\ row.state # "absent"
    /\ Means(c, "note", row)
    /\ UNCHANGED <<row, past, lock, execVars, undoVars, cards>>

PostponeReads(c) ==
    /\ Free(c) /\ row.state = "pending"
    /\ Means(c, "postpone", [row EXCEPT !.state = "postponed"])
    /\ UNCHANGED <<row, past, lock, execVars, undoVars, cards>>

\* Rejecting, WithdrawProposal, and UndoExecution of a scheduled proposal.
TurnDownReads(c) ==
    /\ Free(c) /\ row.state \in {"pending", "scheduled"}
    /\ Means(c, "turn_down",
             [row EXCEPT !.state = IF @ = "pending" THEN "rejected" ELSE "invalidated"])
    /\ UNCHANGED <<row, past, lock, execVars, undoVars, cards>>

\* Mutant: the approval is saved and the scheduling forgotten.
ApprovedOnly(r) == [r EXCEPT !.state = "approved"]

\* proposal.approve, then schedule, before the transaction ends.
Approved(r) == [r EXCEPT !.state = "scheduled"]

\* SubmitApproval from the panel, with the hash of the row it reads.
ApproveReads(c) ==
    /\ Free(c) /\ row.state = "pending" /\ ~Overdue(row)
    /\ Means(c, "approve", Approved(row))
    /\ UNCHANGED <<row, past, lock, execVars, undoVars, cards>>

-----------------------------------------------------------------------------
(* Telegram: the nonce is consumed, the live hash compared, and the members *)
(* of the group read again before they are approved, in one transaction.    *)

PostCard(k) ==
    /\ cards[k].state = "absent" /\ row.state = "pending"
    /\ cards' = [cards EXCEPT ![k] = [state |-> "posted", value |-> row.value]]
    /\ UNCHANGED <<row, past, clerks, lock, execVars, undoVars>>

TapReads(c, k) ==
    /\ Free(c) /\ cards[k].state = "posted"
    /\ IF row.state = "pending" /\ row.value = cards[k].value
       THEN /\ clerks' = [clerks EXCEPT ![c] = [why |-> "tap", target |-> row, card |-> k]]
            /\ cards' = [cards EXCEPT ![k].state = "held"]
       ELSE cards' = [cards EXCEPT ![k].state = "used"] /\ UNCHANGED clerks
    /\ UNCHANGED <<row, past, lock, execVars, undoVars>>

\* A denial commits with the nonce.
TapRereads(c) ==
    /\ clerks[c].why = "tap"
    /\ IF row.state = "pending" /\ ~Overdue(row)
       THEN /\ clerks' = [clerks EXCEPT ![c] = [@ EXCEPT !.why = "approve",
                                                        !.target = Approved(row)]]
            /\ UNCHANGED cards
       ELSE Ends(c) /\ cards' = [cards EXCEPT ![clerks[c].card].state = "used"]
    /\ UNCHANGED <<row, past, lock, execVars, undoVars>>

-----------------------------------------------------------------------------
(* Saves. *)

Releases(c) == lock' = IF lock = c THEN Nobody ELSE lock

SavesRow(c) ==
    /\ clerks[c].why \in {"propose", "edit", "note", "postpone", "turn_down"}
    /\ row' = IF Admits(row, clerks[c].target) THEN clerks[c].target ELSE row
    /\ Ends(c) /\ Releases(c)
    /\ UNCHANGED <<past, execVars, undoVars, cards>>

\* Is there no execution of this diff yet?
KeyIsFree(v) == attempts[v] = "none"

\* Two saves, the authorization and the execution; an error undoes them all,
\* the nonce of the card included.
ApproveSaves(c) ==
    LET t == clerks[c].target
        k == clerks[c].card
    IN  /\ clerks[c].why = "approve"
        /\ IF Admits(row, [t EXCEPT !.state = "approved"]) /\ KeyIsFree(t.value)
           THEN /\ row' = t
                /\ attempts' = [attempts EXCEPT ![t.value] = "claimed"]
                /\ cards' = IF k = Nobody THEN cards ELSE [cards EXCEPT ![k].state = "used"]
           ELSE /\ cards' = IF k = Nobody THEN cards ELSE [cards EXCEPT ![k].state = "posted"]
                /\ UNCHANGED <<row, attempts>>
        /\ Ends(c)
        /\ UNCHANGED <<past, lock, work, sent, applied, undoVars>>

-----------------------------------------------------------------------------
(* The clock and the maintenance step. *)

TimePasses ==
    /\ past < MaxExpiry
    /\ past' = past + 1
    /\ UNCHANGED <<row, clerks, lock, execVars, undoVars, cards>>

ExpireDue ==
    /\ row.state \in {"pending", "postponed"} /\ Overdue(row)
    /\ row' = [row EXCEPT !.state = "expired"]
    /\ UNCHANGED <<past, clerks, lock, execVars, undoVars, cards>>

-----------------------------------------------------------------------------
(* The worker.  A claimed attempt without reservation goes through the     *)
(* gates; the row read under the lock is the one saved later.              *)

Leaves(v, outcome) == work' = Idle /\ attempts' = [attempts EXCEPT ![v] = outcome]

\* Mutant: the hash the authorization signs is not compared.
GatesAdmitAnyDiff(v) == row.state = "scheduled"

GatesAdmit(v) == row.state = "scheduled" /\ row.value = v

GatesRead(v) ==
    /\ work = Idle /\ lock = Nobody /\ attempts[v] = "claimed"
    /\ IF GatesAdmit(v)
       THEN /\ work' = [why |-> "gates", attempt |-> v, held |-> row]
            /\ lock' = Worker /\ UNCHANGED attempts
       ELSE Leaves(v, "failed") /\ UNCHANGED lock
    /\ UNCHANGED <<row, past, clerks, sent, applied, undoVars, cards>>

\* Brake or guardrails may still block it.
GatesPass ==
    /\ work.why = "gates"
    /\ \/ /\ work' = [work EXCEPT !.why = "cleared"]
          /\ attempts' = [attempts EXCEPT ![work.attempt] = "reserved"]
       \/ Leaves(work.attempt, "failed")
    /\ lock' = Nobody
    /\ UNCHANGED <<row, past, clerks, sent, applied, undoVars, cards>>

\* begin_execution and the save of both rows; an error leaves it in doubt.
StartRunning ==
    LET began == [work.held EXCEPT !.state = "executing"]
    IN  /\ work.why = "cleared"
        /\ IF ~Overdue(work.held) /\ Admits(row, began)
           THEN /\ row' = began
                /\ attempts' = [attempts EXCEPT ![work.attempt] = "running"]
                /\ work' = [work EXCEPT !.why = "sending", !.held = began]
           ELSE Leaves(work.attempt, "unknown") /\ UNCHANGED row
        /\ UNCHANGED <<past, clerks, lock, sent, applied, undoVars, cards>>

Send ==
    /\ work.why = "sending"
    /\ sent' = [sent EXCEPT ![work.held.value] = @ + 1]
    /\ \/ applied' = applied \cup {work.held.value}
       \/ UNCHANGED applied
    /\ work' = [work EXCEPT !.why = "waiting"]
    /\ UNCHANGED <<row, past, clerks, lock, attempts, undoVars, cards>>

Records(v, held, outcome) ==
    IF Admits(row, [held EXCEPT !.state = outcome])
    THEN row' = [held EXCEPT !.state = outcome] /\ Leaves(v, outcome)
    ELSE UNCHANGED row /\ Leaves(v, "unknown")

Answer ==
    LET v == work.held.value
    IN  /\ work.why = "waiting"
        /\ \/ v \in applied /\ Records(work.attempt, work.held, "executed")
           \/ v \notin applied /\ Records(work.attempt, work.held, "failed")
           \/ Leaves(work.attempt, "unknown") /\ UNCHANGED row
        /\ UNCHANGED <<past, clerks, lock, sent, applied, undoVars, cards>>

WorkerDies ==
    /\ work # Idle
    /\ work' = Idle
    /\ lock' = IF lock = Worker THEN Nobody ELSE lock
    /\ UNCHANGED <<row, past, clerks, attempts, sent, applied, undoVars, cards>>

\* _reconcile: the receipt only, and the row must be where it was left.
Reconcile(v) ==
    LET begins == attempts[v] = "reserved"
        held   == [row EXCEPT !.state = "executing"]
    IN  /\ work = Idle /\ attempts[v] \in Unresolved
        /\ IF begins => row.state = "scheduled" /\ ~Overdue(row)
           THEN /\ attempts' = [attempts EXCEPT ![v] =
                       IF ~(begins \/ row.state = "executing") THEN "unknown"
                       ELSE IF v \in applied THEN "executed" ELSE "unknown"]
                /\ row' = IF ~(begins \/ row.state = "executing") THEN row
                          ELSE [held EXCEPT !.state = IF v \in applied THEN "executed" ELSE @]
           ELSE attempts' = [attempts EXCEPT ![v] = "unknown"] /\ UNCHANGED row
        /\ UNCHANGED <<past, clerks, lock, work, sent, applied, undoVars, cards>>

-----------------------------------------------------------------------------
(* UndoExecution of an executed proposal. *)

UndoReads(c) ==
    /\ Free(c) /\ lock = Nobody /\ row.state = "executed"
    /\ Means(c, "undo", row)
    /\ lock' = c
    /\ UNCHANGED <<row, past, execVars, undoVars, cards>>

\* Mutant: the mark is written unconditionally.
ClaimsUndoAnyway == undone \in BOOLEAN

\* UPDATE ... WHERE undone_at IS NULL
ClaimsUndo == ~undone

UndoCommits(c) ==
    /\ clerks[c].why = "undo"
    /\ IF ClaimsUndo
       THEN undone' = TRUE /\ restored' = restored + 1
       ELSE UNCHANGED undoVars
    /\ Ends(c) /\ Releases(c)
    /\ UNCHANGED <<row, past, execVars, cards>>

-----------------------------------------------------------------------------
Clerk(c) ==
    \/ \E v \in Values : ProposeReads(c, v) \/ EditReads(c, v)
    \/ NoteReads(c) \/ PostponeReads(c) \/ TurnDownReads(c) \/ ApproveReads(c)
    \/ \E k \in Cards : TapReads(c, k)
    \/ TapRereads(c) \/ SavesRow(c) \/ ApproveSaves(c)
    \/ UndoReads(c) \/ UndoCommits(c)

ExecutionCycle ==
    \/ \E v \in Values : GatesRead(v) \/ Reconcile(v)
    \/ GatesPass \/ StartRunning \/ Send \/ Answer \/ WorkerDies

ProposalNext ==
    \/ \E c \in Clerks : Clerk(c)
    \/ \E k \in Cards : PostCard(k)
    \/ TimePasses \/ ExpireDue
    \/ ExecutionCycle

ProposalSpec == ProposalInit /\ [][ProposalNext]_proposalVars

-----------------------------------------------------------------------------
\* What a row, the copy a handler means to save and the one the worker holds
\* may say.
ProposalRow == [state : {"absent", "executing"} \cup Live \cup Final,
                value : Values \cup {Nobody}, expires : 1..MaxExpiry]
ClerkState ==
    {Idle} \cup [why : {"propose", "edit", "note", "postpone", "turn_down", "tap", "approve",
                        "undo"},
                 target : ProposalRow, card : Cards \cup {Nobody}]
WorkState ==
    {Idle} \cup [why : {"gates", "cleared", "sending", "waiting"}, attempt : Values,
                 held : ProposalRow]

\* Every variable keeps its type; APPROVED is never left in the row.
ProposalTypeOK ==
    /\ row \in ProposalRow
    /\ past \in 0..MaxExpiry
    /\ clerks \in [Clerks -> ClerkState] /\ lock \in Clerks \cup {Worker, Nobody}
    /\ attempts \in [Values -> Unresolved \cup {"none", "claimed", "executed", "failed"}]
    /\ work \in WorkState
    /\ sent \in [Values -> Nat] /\ applied \subseteq Values
    /\ undone \in BOOLEAN /\ restored \in Nat
    /\ cards \in [Cards -> [state : {"absent", "posted", "held", "used"},
                            value : Values \cup {Nobody}]]

\* What the owner is told of a row, the value its execution is about, and the
\* values that were approved: this module implements ProposalPromise.
Begun == {"executing", "executed", "failed"}
Status == IF row.state \in Begun THEN row.state
          ELSE IF row.state \in Final THEN "closed" ELSE "open"
Chosen == IF row.state \in Begun THEN row.value ELSE Nobody
Agreed == {v \in Values : attempts[v] # "none"}
Promise == INSTANCE ProposalPromise WITH
               status <- Status, value <- Chosen, approved <- Agreed, writes <- sent,
               made <- applied

\* Whatever handlers, cards and workers do to the row and to copies of it they
\* have read, a proposal keeps what it promises: one write, of a value that was
\* approved; an end that tells how the write went, or a closing, for good; and
\* one undo (_TRANSITIONS, the trigger, idempotency_key, undone_at).
ImplementsPromise == Promise!PromiseSpec

\* A write leaves the worker only while the row is executing and says that very
\* value: no edit, withdrawal, rule cycle or expiry slips another one under it.
SentAsTheRowSays ==
    [][\A v \in Values : sent'[v] # sent[v] =>
           row.state = "executing" /\ row.value = v /\ work.attempt = v]_proposalVars

\* A proposal leads to one write in all, whatever values it went through.
SentOnceInAll == \A u, v \in Values : sent[u] > 0 /\ sent[v] > 0 => u = v /\ sent[u] = 1

\* However many clerks undo an executed change at once, one compensating
\* proposal is made (_MARK_UNDONE_IF_PENDING).
UndoneOnce == restored <= 1

\* The value of a scheduled change stays the one approved.  It does not hold:
\* a note or a postponement saves the row it read before an edit was approved.
ApprovedValueIsFixed ==
    [][row.state = "scheduled" /\ row'.state = "scheduled" => row'.value = row.value]_proposalVars

\* Only the owner's own edit takes a scheduled change back to pending
\* (update_with_equivalent: only while no authorization is alive).  It does not
\* hold: the rule cycle saves over a row approved since it read it.
OnlyAnEditReopens ==
    [][row.state = "scheduled" /\ row'.state = "pending" =>
           \E c \in Clerks : clerks[c].why = "edit" /\ clerks'[c] = Idle]_proposalVars

\* A tap on a card decides the value the card shows (resolve_callback, rule 2).
\* It does not hold: the group is read again after the hash was compared.
TapDecidesWhatItShows ==
    [][\A k \in Cards :
          cards[k].state = "held" /\ row.state = "pending" /\ row'.state = "scheduled"
          /\ cards'[k].state = "used" => row'.value = cards[k].value]_proposalVars
=============================================================================
