# A formal model of safent-ads

safent-ads is a self-hosted server that proposes changes to Google and Meta
advertising accounts and makes them once a person has approved them. Its master
invariant (`ARCHITECTURE.md`): nothing reaches an advertising platform without
a human approval and a hard cap per account. This directory holds TLA+ modules
of the parts that keep that promise, the TLC instances that check them, and
proofs for TLAPS. Paths below are relative to `src/safent_ads/` of the
repository unless they say otherwise.

## 1. The system

Four processes:

| process | what it does | durable state |
|---|---|---|
| `ads-api` | REST, MCP and OAuth front end; people approve, edit, withdraw, brake and undo here; runs the chokepoint once inside a few requests | PostgreSQL |
| `ads-worker` | cycles for ever: ingestion, signals, rules, **execution**, package publications, maintenance, notifications | PostgreSQL |
| `ads-broker` | the only process with platform credentials and the only writer; one asyncio loop behind a unix socket | SQLite ledger, caps files, credential store |
| `ads-db` | PostgreSQL | |

Outside: the platforms, Telegram, the owner's browser, MCP clients, and native
runtimes (a bridge on the owner's machine that runs a model).

### Inventory

| component | state | operations | hard behaviour | what makes it correct |
|---|---|---|---|---|
| Hard-cap arithmetic (`broker/domain/write_authorization.py`) | none | `check_hard_caps` | boundaries, rounding | denies exactly what goes over a cap |
| Broker write path and ledger (`broker/platforms/write_pipeline.py`, `broker/infrastructure/write_ledger_store.py`, the adapters) | `write_receipts`, `idempotent_writes`, `applied_changes`; requests in flight | `execute_write`, `begin_admitted_write`, `finalize`, `read_receipt`, `admit_upload` | concurrent requests, awaits between check and use, crash between reservation and record, lost answers, retries | one call per key, spending within caps, tables agree, verdicts are for good |
| Caps files (`broker/infrastructure/caps_state.py`, `hard_caps_service.py`, `effective_caps.py`) | operator's file, panel document, their copies in memory | panel mutations, reload | crash between replace, fsync and swap; damaged or hand-edited files | effective caps never exceed what the file allows; what was confirmed survives |
| Execution chokepoint (`execution/application/chokepoint.py`, `execution/infrastructure/`) | `executions`, `execution_reservations`, `spend_ledger`, `proposals` | `run_once` and its exits, claim, reconcile | leases, two workers, timeouts, worker crashes, withdrawal and brake at any moment, midnight | sent once, money in flight is reserved, the daily cap, books agree, a confirmed change is settled |
| Guardrails and brake (`execution/domain/guardrails.py`, `toggle_emergency_brake.py`, `sql_brake_state.py`) | brakes by scope, guardrail sets | `evaluate`, `put_guardrail`, `engage`, `release`, the brake in force | limits and sums that move between signature and gates, rounding, several connections of one account, two requests at once, three scopes read one by one | what is sent was signed and fits band, step and sums; an answered brake stays on, a reading finds it, a braked change is not sent |
| Proposal life cycle (`proposals/`, Telegram cards, `execution/application/undo_execution.py`) | `proposals`, `authorizations`, `telegram_callbacks`, undo marks | propose, edit, note, postpone, approve, tap, withdraw, expire, undo | a row read whole and saved whole, without a version | only what the row says is sent; one undo |
| Package saga (`packages/`) | packages, publications, steps | approve, reject, replace, add context, cancel, resume, pause; the worker's cycle | partial failure, locks released by an inner commit, uncertain steps, crashes | only the signed tree, parents first, a cancellation is true, it ends |
| Runtime jobs (`runtime/`, `opportunities/infrastructure/campaign_drafts_sql.py`) | jobs, leases, drafts, connectors | approve plan, claim, heartbeat, report, retry, cancel, promote | lost answers, repeated and late reports, bridges that die, paid retries | bounded paid runs, one proposal per draft, the owner's edits win |
| MCP OAuth server (`mcp_oauth/`) | clients, requests, grants, tokens | register, consent, redeem, refresh, revoke, prune | concurrent redemption and rotation, pruning under consent | a replay finds its family, a grant keeps its client |
| Identity (`iam/`) | sessions, TOTP rows, confirmations, federated jumps | log in and out, touch, presence, confirmation | every request writes back a stale row | logout is for good, a confirmation serves once |
| Platform connection (`accounts/`, `broker/application/oauth_connect_flow.py`) | attempts and credentials in two processes | begin, callback, poll, revoke, health | duplicate callbacks, abandoned calls, crash between two saves | a code is redeemed once, the status shown is true |
| Notifications (`notifications/`, `orchestration/application/`) | digest queue, outbox | ticker, digest, send, record | retries of a half-done step, crash, lost answers | one call of the messenger per notification, one digest per signal, the cycle ends |
| Worker process (`orchestration/infrastructure/single_worker_lock.py`, `worker_supervisor.py`, `composition/worker.py`) | a session lock, the loops, the stop event | start or refuse, supervise, stop, cancel, unlock, restart | a loop that ends, one that hangs, a kill, a session the database ends | no two run their loops while their sessions are whole; a worker that lost a loop is replaced |
| Audit log (`audit/`, `alembic/versions/0002_audit_chain.py`) | `decision_log`, its sequence | append, verify | transactions that append at once, rollbacks, rows altered or lost | broken exactly when a row was harmed, and nothing harmed is vouched for |
| Rules, signals, optimization, metrics, catalog, CRM, economics | read models | evaluate, ingest | none of its own | pure functions of data |
| Creative, brand, panel, settings, workspaces, composition, MCP tools, shared | files, read models | render, show, wire | external services | not a protocol |

How they meet: an approval (`SubmitApproval`, or `AuthorizeRuleAction` for a
rule) signs an authorization, schedules the proposal and inserts an `executions`
row in one transaction. A worker claims the row and drives it through the
chokepoint, which reserves money, re-reads state and brake, makes `RUNNING`
durable and sends one `execute_write` over the socket. The broker verifies the
signature, resolves the effective caps from its two files, checks them, reserves
the key in its ledger, calls the platform once and records the outcome. If the
answer is lost, the chokepoint never writes again: it reads the receipt until it
knows. A package is a tree of such writes that its own saga takes through the
same chokepoint, step by step. A native runtime only ever drafts a proposal.

`PROJECT.json` lists the components with their status and the hazards with
their lines.

## 2. The modules

| module | models | stands for |
|---|---|---|
| `HardCapCheck` | the cap arithmetic, as predicates | `write_authorization.py` 212-373 |
| `WritePort` | what the broker promises about a key: reserve, ask once, settle, never revise | (abstract) |
| `BrokerWriteLedger` | the write path of the broker | `write_pipeline.py`, `write_ledger_store.py`, `google_ads_adapter.py` 301-485, creation and package admission |
| `CapsPolicy`, `CapsStore` | the resolution of the caps in force; the files they come from | `hard_caps_policy.py`, `caps_state.py`, `hard_caps_service.py`, `effective_caps.py` |
| `ExecutionChokepoint` | approval to settled change, with people, time and workers, over an instance of `WritePort` | `chokepoint.py`, the SQL queue, reservations, unit of work and ledger |
| `WritePath` | the workers of the one, the broker of the other and the socket between them | `socket_server.py`, `dispatcher.py` 353-392, `broker_client.py`, `broker_platform.py` |
| `SpendGuardrails` | the limits in force, the evaluator, and its verdict from the signature over the gates to the write | `guardrails.py`, `sql_guardrail_sets.py`, `money.py`, `authorization.py` and the gates of `chokepoint.py` |
| `EmergencyBrake` | who engages and releases a brake and who reads the one in force | `toggle_emergency_brake.py`, `sql_brake_state.py`, `guardrails.py` 117-208, the table of `0007` |
| `ProposalPromise` | what a proposal promises its owner: one write, of an approved value, told as it went; one undo | (abstract) |
| `ProposalLifecycle` | one proposal's row, everybody who reads and saves it, its attempts and its undo | `proposals/`, `resolve_callback.py`, `undo_execution.py`, the trigger of `0037` |
| `PackagePublication` | the saga and the owner's requests against it | `packages/`, `composition/worker.py`, the triggers of `0042` |
| `RuntimeJobs` | jobs, leases, reports, drafts | `runtime/`, `campaign_drafts_sql.py`, `workspaces/store.py` |
| `McpOAuth` | one client, one request, one family of tokens | `mcp_oauth/`, tables of `0035` |
| `OwnerSession` | sessions, presence, confirmations | `iam/` |
| `PlatformConnect` | the connection of a platform over both processes | `oauth_connect_flow.py`, `complete_oauth_connect.py`, `credential_store.py`, `connections_router.py` |
| `NotificationDelivery` | the notification cycle of one business | `notifications/`, `retry.py`, `worker_schedule.py` |
| `WorkerProcess` | the life of `ads-worker`: lock, loops, supervisor, restart | `single_worker_lock.py`, `worker_supervisor.py`, `composition/worker.py` 219-334, `compose.yaml` |
| `AuditChain` | the log of decisions, the trigger that chains it and the verifier | the table and trigger of `0002`, `audit/` |
| `MC…` | their instances for TLC | |
| `BrokerWriteLedger_proofs`, `ExecutionChokepoint_proofs`, `WritePath_proofs` | the theorems of the module each is named for | |
| `Stopping_proofs`, `Access_proofs`, `Decisions_proofs`, `Settling_proofs` | the theorems of the guardrails and the brake; of sessions, grants, caps and connection; of proposals, jobs and log; of the publication, the notifications and the worker process | |
| `SumTheorems` | lemmas about sums over finite sets, which the two theorems about caps rest on | |

`BrokerWriteLedger` and `ExecutionChokepoint` compose through `WritePort`: the first is
shown to implement it, the second uses nothing else about the broker, but for one thing.
`BrokerRejects` answers a rejection only for a key that was never reserved; of the broker
alone that is false once a key is sent again while it is in flight. `WritePath` puts the
two together, with the socket between them and without that guard, and shows that the
workers cannot tell the difference (`ImplementsChokepoint`): the broker's answers are
true because a worker sends a key once, and a worker sends it once whatever the answers.

`MCAccess`, `MCDecisions`, `MCSettling` and `MCStopping` put components side by side: an extra
variable (`door`, `side`, `duty`) picks one of them in the initial state and the
others stand still (`MCSettling` takes the chokepoint by `INSTANCE`, as its names meet
those of the runtime jobs). Those components share no variable, so an interleaving of
two of them shows nothing that each alone does not; one run then answers one
question about several (who may act, what is decided, what must end, what stops a
change). Each
module keeps its own `Init`, `Next` and `Spec`.

### BrokerWriteLedger

State: the three tables (`receipts`, `outcomes`, `applied`), what the process
holds (`slots`, one request each, with the clock reading the handler took at its
start), and the platform as the world sees it (`effects`, `calls`, `uploads`).
`effects`, `calls`, `uploads` and `sent` are history: no code reads them.

A slot follows `execute_write`: `Receive`, `StateRead` (the remote state came
back: authorize, and for an update reserve in the same breath, as no await
separates them), `Prepared` (a creation's currency, goals, parent and rate
budget, then the reservation), `CallPlatform`, `Finalize`, `Deliver`. Each
action is what runs between two awaits, and every SQLite transaction lies within
one. The failure exits are actions of their own (`StateReadFailed`,
`PreparationFailed`, `RateLimited`), `CallPlatform` may change the platform and
answer `UNKNOWN`, or not change it and answer `UNKNOWN`, and `Crash` drops every
slot at any moment. `ReceiveUpload`, `Upload`, `RecordUpload` are `admit_upload`.
A change is dated by the clock its request read, in the ledger and in `effects`: the code
passes `finalize` the instant of `authorize` so that midnight in between does not move it. The
day on which the platform made it may be the next; the caps are promised for the broker's.

Abstracted: signatures and canonical JSON (a request carries the intent that was
signed, and `Verified` compares), SQL, the platform's payloads. The Meta adapter
has the same shape over the same pipeline. Money is integers in minor units, as
in the code; Python integers do not overflow.

### CapsStore

State: the operator's file as loaded, the panel document as the file system shows
it and as a power loss would leave it, the copy in memory, the write in progress,
the date. `SetAccountCaps` and `DeleteAccountCaps` check budget, envelope and number
of accounts and start a write; `ReplaceDocument`, `FsyncDirectory`, `ConfirmMutation`
are its steps, `MutationFails` an error at any of them, `BrokerRestarts` a crash, a
power loss or a start with another file, `DocumentTampered` a file edited or damaged
by hand. `accepted` and `unsettled` are history.

### ExecutionChokepoint

State: for each proposal its row in `proposals`, `executions` and
`execution_reservations`, its date in `spend_ledger`; for each worker what it is
doing and with which row; the brake, expiries and the day; the broker's port and
the requests on their way to it. `LeaseLapses` is the passing of the claim's five
minutes, `worker.old` remembers that a worker outlived it.

Each action is one transaction or one message: claim and gates together
(`GatesRefuse`, `PassGates`, `GateError`), then `Revalidate`/`SkipDrift`/
`ReadError`, `RecheckBrake`, `StartRunning`, `Send`, `GotSuccess`/`GotRejection`/
`NoAnswer`; on a row that may already have reached the broker
`ReconcileInDoubt`/`ReconcileSettles` (the third exit of `_reconcile`, a rejection read as a
receipt, is not reachable: a receipt is written once its key is reserved and says
`SUCCEEDED`, `FAILED` or `UNKNOWN`). `Crash` forgets a worker at any moment.
`Save` writes the whole row whoever holds it, as `_UPSERT` does.

Abstracted: amounts other than the daily sum (`SpendGuardrails` has the monthly sum, the
changes per entity, floor, ceiling and step), so `RecheckBrake` chooses whether the clamp
leaves anything to change, and `GatesRefuse` whether the channel is switched on in
that process; claim order (oldest first, a bounded number per cycle) is any order;
row and account locks are the atomicity of the actions. The `ads-api` flows
that insert and claim in one transaction are `Approve` followed by a claim, a
superset.

### WritePath

State: that of both sides, `inbox` (requests on the socket) and `answers` (what came back
to the worker, history). The chokepoint's view of the broker is computed from the broker's
own tables: `Receipt` is `read_receipt`, `Asked` and `Changed` what the platform was asked and
did, `Refused` what was answered. `ExecutionSide` is a step of a worker, a person or the
calendar; `Take` a slot reading a request, off the socket for a proposal and from nowhere in
particular for a package, whose publication may send its key again; `RequestLost` a
client gone before its frame was whole; `Reply` an answer written to a connection that may be
closed by now; `AskPlatform` and `Handle` the broker's own steps. `Send` puts a proposal on the
socket, whichever of its `Requests` a slot then reads. A success is acted on only if it was
answered (`GetsSuccess`).

Abstracted: the two clocks tick apart (the broker's day decides its caps, the day of
ads-api its books; `changedOn` dates a change by the latter); peer check and framing; a
crash of the broker drops its slots and may leave what the socket holds, a superset.

### SpendGuardrails

State: the row of limits of each scope, what the spend ledger adds up to, one change
with the state of its proposal and of its execution, what was signed. `Evaluate` is
`GuardrailEvaluator`: `Clamp` (the band, then the step, to the cent), `CapReasons` (the
sums and the number of changes), `EvaluateCreation` (measured, never clamped), and a rule
never raises, before and after the clamp. `Authorize` signs the effective value and the
verdict; `Gates` evaluates again and compares the value first, then the verdict;
`SkipNoop` closes a row that the clamp left nothing to do; `Write` sends the effective
value. In between `PutGuardrail` changes the account's limits and `OthersSpend` the sums.
`admitted` is history: the limits and sums the gates read.

Abstracted: an account has one connection, so one row (the rows of several connections
would be composed in an order the query does not fix); a business's rows are written by
hand only, and no code writes rows of a campaign; all amounts are in the account's
currency; brake, drift and expiry are in `ExecutionChokepoint`.

### EmergencyBrake

State: for each place a brake may be pressed on (everything, a business, a connection
of an account) the last row of the table; for each request the place it asks about and
how far it is (`read`, `checked`, `wrote`); a worker's reading. `PanelAsks`
takes the clock and is the use case's first look, `Rechecks`/`EngageWrites` and
`ReleaseWrites` are `save`, `Commits` and `Aborts` end the transaction: until then
nobody sees what it wrote, and whoever writes the same key waits. Only an account's
requests, and the gates, take its advisory lock. A scope is read over all the
connections of the account (`PlacesOf`); `ReadingStarts`, `ReadsScope` and `ReadingEnds` are
`get_effective`, under the lock in the gates and without it just before the request
leaves. A confirmed tap in Telegram is a request for everything. `promise` (what was last
answered) and `firm` (what one scope has stopped since the reading began) are history.

### ProposalLifecycle

One proposal. A handler ("clerk") reads the row (`…Reads`), decides, and saves what
it read with its change (`SavesRow`, the upsert of every column, under the trigger:
`AllowedFrom`, `Reopens`, `Admits`). A value stands for the diff and its hash. The
account lock is held by the handlers that take it: the edit, the rule cycle, the
gates, the undo. The worker's part (`GatesRead`, `GatesPass`, `StartRunning`, `Send`,
`Answer`, `WorkerDies`, `Reconcile`) is the chokepoint seen from one row.

It implements `ProposalPromise` (`ImplementsPromise`), which knows no handlers, copies,
locks or attempts: a status (open until the execution begins or the row is rejected, expired or
invalidated; then executing and its end, or closed), the values approved, the value
chosen, the writes and the undo. `Status`, `Chosen` and `Agreed` are the mapping. The
promise is as weak as the code makes it: the value written is *one* the owner approved, not always the one
approved last (`ApprovedValueIsFixed`, section 5), and an execution in doubt may
stay executing for ever.

### PackagePublication

One package, its publication and five steps (an upload, a campaign, an ad set, an
ad, the activation). The worker's tick is `WorkerReads`, `WorkerBegins` (pre-flight
checks and the choice of a step), `GatesCommit`, `SendStep`, `Hear`/`Reconcile` and
`FileOutcome`/`Conclude`: the two commits inside the chokepoint release the row lock
the saga believes to hold, which is where the owner's requests interleave
(`RequestReads`, `RequestWrites`, `RequestFails`). The three triggers decide every
write against the row as it is. A tree is an opaque value: `replace` gives another. The
cursor is moved on after every step, the last one included: a completed publication's is
`Len(Plan) + 1`. `barred` is what stops a tick before its step besides a drift and the expiry: a brake, or a
channel no longer switched on. An upload is no row of the chokepoint (`UploadCreative`), and a
creative that is gone or altered fails it before anything is sent (`Denials`); `sends` counts
the requests of the other steps.

### RuntimeJobs

One launch; a job per revision of the plan. A claim sweeps a lapsed lease and takes
the job with a new one; a report locks the workspace and then the job, and in one
transaction compares the context, saves the draft and promotes it. A report carries a
campaign or nothing; with one the job ends prepared, or blocked or failed with the draft kept
(fields missing, refused by `promote`, a run that failed). Messages travel
in `inbox`, may arrive late, twice (`ReportAgain`) or never (`Lost`), and the answer to
one may be lost. `runs` is history.

### McpOAuth, OwnerSession

In both a call is a record with a program counter and one action per statement
group of its transaction. `McpOAuth` keeps the row locks the statements take (an
`UPDATE` waits; the rotation reads `NOWAIT`) and the partial unique index. In
`OwnerSession` every request reads the session row and writes it back later
(`SavedRow`: which columns `_UPDATE_SQL` writes is what its properties are about).

### PlatformConnect, NotificationDelivery

`PlatformConnect` has ads-api's side of a callback (`call`) and the broker's (`job`)
as two programs: the first may give up or die while the second goes on. The attempt's
row is locked for the whole call. `NotificationDelivery` is one worker: time in slots
of a schedule, the digest step and the ticker step under `run_with_retry`, each SQL
call in a session of its own that may fail before or after its commit, and a messenger
that may take a message and lose the answer. One call of the messenger (`calls`) is up to
`Tries` requests to Telegram (`_with_retry`), each of which may leave a message (`copies`). The
queue and the outbox are one table, and a digest's own reserved row has the kind and state of a
queued entry: `pop_due` takes it along when an error or a crash left it so (`Suppressed`).

### WorkerProcess

State: for each container its phase (`down`, `up`, `stopping` once the stop event is
set, `cancelled` once the grace is over) and the loops that have not ended; whose
session holds the lock. `WorkerStarts` is `run` up to its loops (without the lock the
process ends as it began, a step that changes nothing); `LoopEnds` an error, a
cancellation or the end of a cycle after the stop; `SupervisorWakes`, `GraceEnds` and
`Unlocks` are `supervise_worker_tasks` and what follows it; `Terminated` a signal,
`WorkerKilled` a crash, `SessionEnds` the database's end of the session, of a dead
process or of a living one (`severed`, history).

### AuditChain

State: the committed rows by number; of each open transaction the number it has drawn
and the rows it has inserted, which nobody else sees; the sequence, which a rollback does
not turn back. `DrawsSeq` and `Chains` are the two halves of one `INSERT`: the default of
the column and the trigger before the row, which takes the hash of the last row it sees.
`RowAltered` and `RowLost` are harm from outside; the program's own triggers deny it. A hash
is the sequence of what it was computed over, so two hashes are equal when they stand
for the same rows. `ChainOk` and `VerifiedThrough` are the verifier's answer.
`overlapped` and `harmed` are history.

## 3. What is checked

Every run explores its whole state space (`broker_retry` under the constraint below).

| run | instance | shows |
|---|---|---|
| `broker_caps` | 2 slots, 3 keys, one account, caps that any two changes fit and no three; 3 days, 2 months; each key sent once | `SpendWithinCaps`, `EffectsAreCounted`, `RejectionMeansNothingDone` |
| `broker_retry` | 2 slots, 2 keys, 4 signed requests of which 3 share a key with other authorizations and contents; or 3 keys: creative, campaign and ad set of one package, two mints of one authorization; any number of sends | `AtMostOneCall`, `LedgerAgrees`, `ParentFirst`, `HistoryIsKept`, and `ImplementsWritePort` |
| `broker_upload_barrier` | the package alone, violated | finding 1 |
| `write_path` | 1 proposal (a raise, or the creation of a child), 1 worker whose gates may fail, 2 days; 2 slots, 1 package key that uploads once, a broker's clock of 2 instants | `ImplementsChokepoint`; `PathIsSound` (answers are true; the reservation of an unsettled change is held, and what is recorded as not written was not written; the books agree with the platform); types of both sides |
| `chokepoint_stall` | 2 workers that may outlive their lease, a raise and a rule's cut, 2 days; brakes: everything and the 2 connections of one account, 2 requests, 1 reader, 2 instants; guardrails: a business's row or none, 3 policies (one looser than the business), 4 sums, 23 changes whose steps end in half a cent | `SentOnce`, `DailyCapHolds`, `WithdrawnIsNeverWritten` without the lease assumption; `BrakeHolds`, `BrakeIsSeen`; `WrittenIsSignedAndAdmissible`; types |
| `guardrail_changed` | the guardrails alone, violated | finding 4 |
| `access` | caps: 2 accounts, 2 requested documents and a hand-edited one, with and without envelope, 2 changes a day, 2 days; OAuth: 2 concurrent calls, 3 generations of tokens; sessions: 2 handlers, 1 session, 2 actions, 1 code, 1 confirmation, 1 jump; connection: 2 attempts (redirected and pasted), 2 callbacks, 1 broker crash | caps: `AuthorityHolds`, `ChangesWithinBudget`, `ConfirmedIsKept`; OAuth: `ConsentIsTraceable` (a replayed code or token finds its family, a grant keeps its client); sessions: `ConfirmationServesOnce`, `LoggedOutStaysOut`; connection: `ConnectionIsSound` (a code is redeemed once, connected means usable, revoked means not) |
| `decisions` | 1 proposal, 2 values, 2 clerks, 1 card, 2 expiries; 1 launch, 2 revisions of the plan, 2 bridges that may be revoked, 2 leases, 2 attempts; 2 transactions, 4 numbers, 1 row harmed | `ImplementsPromise` (one write, of an approved value; a true end; one undo), `SentAsTheRowSays`; `PaidRunsAreBounded`, `OneProposalPerDraft`, `OwnersEditIsSeen`; `VerdictIsRight` |
| `audit_chain` | 2 transactions, 4 numbers, nothing harmed, violated | finding 3 |
| `publication` | 5 steps, 2 trees, every request of the owner, 1 crash, fair | `SignedTreeInOrder`, `PromiseKept`, `PublicationSettles` |
| `publication_failed` | the same, violated | finding 2 |
| `settling` | 1 queued execution and 2 workers; 1 bridge and 3 leases; 1 attempt and 2 callbacks; 2 chats, 4 slots of a day, 3 tries of a message, 1 crash; 2 containers, 3 loops; fair | `DoneByOne` (`OneCallOneDigest`: the messenger is called once for a reserved notification, a queued signal goes into one digest, `SENT` is no guess; `OneRunsCycles`: of the workers whose session is whole one runs its loops), `WorkSettles` (`ExecutionSettles`: a confirmed change is settled and a queued execution decided; `RunningIsSettled`, `WaitingEnds`, `CycleEnds`, `WorkerIsReplaced`) |

Bounds. Broker: `MaxClock`, `TicksPerDay`, `DaysPerMonth`, `MaxUploads`; chokepoint:
`MaxDay`; brake: `MaxTime`, `Pressed` (the places asked about); caps: `MaxCapsDay`,
`RetainedDays`, `MaxChangesPerDay`; OAuth: `Generations`;
sessions: `MaxIdentifications`; connection: `MaxBrokerCrashes`; proposals: `MaxExpiry`;
jobs: `MaxEdits`, `MaxInFlight` (reports on their way), `MaxAttempts`; package:
`MaxCrashes`; the write path: those of its two sides; notifications: `MaxSlot`, `HourLength`, `DayHours`, `MaxEntries`, `Tries`,
`MaxDelay`, `MaxWorkerCrashes`; log: `MaxSeq`, `MaxHarm` (rows altered or lost). The
worker process needs none. Why they are enough: every hazard in the list needs
at most two actors, two changes or two values that compete, one boundary (of a day,
a month, a lease, an expiry) and one crash; a third actor adds interleavings of the
same pairs. Three generations of tokens are two rotations, so a replayed token has
both a parent and a child. Two attempts of a job are one retry and the exhaustion.
`MaxAttempts` and `RetainedDays` are smaller than in the code, where they are constants
of the same meaning; `Tries` is the code's 3. In `settling` the digest's hour is a quiet one (signals are
queued before it and told in it, tickers go out later), so no cycle sends both kinds; the
theorem covers the hours that overlap. In `broker_caps` no amount comes near half a cent: that
boundary is `chokepoint_stall`'s (`SpendGuardrails`).

Deadlock is checked in `broker_retry` and `chokepoint_stall`. It is not an error in the others: each
key is sent once, a change that is settled stays so, the clock, the crashes, the identifications and the numbers of the
log end, a package that is published or rejected stays so.

`broker_retry` has one constraint, `OneKindOfKeys`: a behaviour sends the keys that are
retried or the keys of the package, not both. The mix would add nothing: keys meet only
in the sums of the caps, which `broker_caps` is about.

Symmetry is used where the actors run the same code on any data and no property
tells them apart (slots, workers, clerks, leases, bridges, calls, handlers,
callbacks, requests for a brake, connections of one account, transactions), and never in
a run with liveness. `MCDecisions` permutes sets of different sides together, as each
behaviour has only one side.

Assumptions each run makes explicit:

* `LeaseHolds`: no worker outlives the five minutes of its claim. The code means it
  so (`sql_execution_queue.py`, the lease is chosen far above the ten seconds of the
  client's timeout). `chokepoint_stall` drops it; `BooksAgree` needs it: a stale worker's
  upsert can put an `EXECUTED` row back in doubt.
* `GatesMayFail`: the database can fail inside the gates. It does in
  `write_path`; with two workers it breaks `UnsettledIsReserved` (section 5).

`DailyCapHolds` allows what real cuts have freed: the guardrails count a settled
cut as room, and so does the property, on the day the platform made it.
`ConfirmedIsKept` holds from a confirmation on until somebody touches the file by
hand (`unsettled`).

Fairness.

* `ExecutionChokepoint` (in `settling`): workers run their cycle for ever and finish or abandon what
  they started (the client's timeout bounds every wait); leases lapse by the clock;
  each claimable row is claimed at some point (the cycle takes the oldest first);
  and a broker asked for the same receipt over and over answers at some point (strong
  fairness of `ReconcileSettles`: the broker or the socket may fail, not for ever).
* `PackagePublication`: the worker ticks (`run_package_publications_forever` catches
  everything and sleeps) and time passes. No answer is assumed to come: a step that
  never succeeds ends by the expiry of the approval.
* `RuntimeJobs`: a bridge that is not revoked keeps asking (`serve`), sends heartbeats,
  gives up a report after its tries; leases lapse; and a claim it makes over and over is
  answered at some point (strong fairness of `Claim`, whose guard other requests
  may disturb). No report is assumed to arrive.
* `PlatformConnect`: a callback and the broker's job run to their end (timeouts bound
  both), ten minutes pass, the panel polls. Nothing of the owner or the provider.
* `NotificationDelivery`: the worker's loop goes on. No database or messenger is
  assumed to work, but a statement is assumed to answer or raise: the engine sets no
  timeout on a command, and a connection that hangs holds the cycle.

* `WorkerProcess`: the supervisor's own waits are bounded and a cancelled loop ends (no
  loop catches its cancellation); a container that ends is started again
  (`restart: unless-stopped`), and the database sees a dead connection. A loop that is
  only asked to stop need not end. A loop is what the supervisor waits for: what the
  Telegram client starts for itself inside its loop may die unnoticed, and is not modelled.

Nothing is assumed of people, the brake, the platforms or the network.
`BrokerWriteLedger` has no liveness property: a pending reservation may stay for ever
by design.

Each property of a passing run has a mutant: an operator with `Mutant` in its comment,
a plausible wrong version of the definition after it, with which TLC finds the
property violated.

Three more properties hold in these instances but are in no run, to keep each run to
its question: `StepSentOnce` (package) and `SentOnceInAll` (proposal), which are proved,
and `OutcomeIsFinal` (connection).

## 4. What is proved

Every safety property of section 3 is proved for all values of the constants, but for the
types of one composition and what TLC alone can do (see "What is not"). The pattern is
the same throughout: an inductive invariant with named parts, each about one thing the
property does not say but needs; `Init` establishes it, every action keeps it (one lemma
per group of actions), and it implies the property. TLC checked each part as an invariant of a
run before it was proved. Where a part rests on another, the lemma of its step assumes
that one too, and one last lemma puts them together.

### The broker

`BrokerWriteLedger_proofs`, for any keys, slots, accounts, caps and requests:

| theorem | states |
|---|---|
| `Invariance` | `Spec => []IInv` |
| `TypeCorrect` | `Spec => []TypeOK` |
| `OneCall` | `Spec => []AtMostOneCall` |
| `Agreement` | `Spec => []LedgerAgrees` |
| `Counted` | `Spec => []EffectsAreCounted` |
| `History` | `Spec => HistoryIsKept` |
| `Refinement` | `Spec => ImplementsWritePort` |
| `ParentsFirst` | `Spec => []ParentFirst` |
| `RejectedIsUntouched` | `~Resend => (Spec => []RejectionMeansNothingDone)` |
| `HoldingsInvariance` | `Spec => []HoldingsInv` |
| `CapsHold` | `Spec => []SpendWithinCaps` |

The argument. `AtMostOneCall` is not inductive: a slot that has reserved a key must be the
only one that will call for it, and the tables alone do not say so. `IInv` adds
what the slots know: a slot between reservation and record (`Owns`) finds its key
reserved, unrecorded and not yet called, or called with an outcome that tells what
happened (`OwnersKnow`); no two slots own one key (`OneOwner`); without a reservation nothing
was done, and with one only what it stands for (`ReservedFirst`); an upload slot never
holds the key of a write (`SlotsFit`). `QuietStep`, `ReserveStep`, `CallStep`, `RecordStep`
treat the four ways a step can touch the tables, `NextRelations` goes through the
actions, and `StepKinds` states the four kinds as a fact that the action property and the
refinement both follow from. `Counted` rests on `LedgerAgrees` and `ReservedFirst`: the amount
held back is never less than the change (`SignedDeltaType`, `CreationDelta`).

`ParentsFirst` adds `ParentInv`: what is reserved was asked for by a request whose parent is
recorded as a success, which is never taken back, and a verdict without a reservation is an
upload's. `RejectedIsUntouched` adds `OnceInv`: without resends a key is in one slot at
most, so an answered rejection still speaks of an untouched key.

`CapsHold` is about what the platform did, the check about what two tables say, days earlier
for a slow request. `HoldingsInv` is about neither: it adds up every reservation of an
account by the day it is dated, at what it may `Cost` in the end (a raise its amount from the
first moment, a cut nothing until it is known to be made), and says that each day and
each month fit the caps. The check counts at least that much, because it counts pending
rows of every day and at the positive amount held back (`ChecksCountTheHoldings`); what it lets
through therefore fits beside it (`WhatTheCapsAllow`, `ReservingFits`). No later step makes a
reservation cost more (`SettlingFits`), and what the platform did is among what is held and
costs no more than that (`EffectsAreHeld`).

Assumptions: `LedgerAssumption` (the constants' types; `None` is not a row),
`UnreadableAssumption`, `UploadKeysAssumption` (no key is used for an upload and for
a write, because a key of a package names one step of the signed plan,
`build_package_step_idempotency_key`, and a step is one or the other) and
`ParentsAssumption` (the parent of a step is never an upload: `derive_step_plan` names a
creative apart, by the steps that use it). `~Resend` is how ads-api uses the broker
(`ChokepointSendsOnce`); with resends the property is false, as a key in flight is rejected. `WritePath_proofs` needs it of the proposals only.

### The chokepoint

`ExecutionChokepoint_proofs`, for any proposals, amounts, workers and days:

| theorem | states |
|---|---|
| `ChokepointTypes` | `Spec => []TypeOK` |
| `ChokepointSendsOnce` | `Spec => []SentOnce` |
| `ChokepointSparesTheWithdrawn` | `Spec => []WithdrawnIsNeverWritten` |
| `ChokepointMoneyFollowsTheWrite` | `Prudent => (Spec => []MoneyFollowsTheWrite)` |
| `ChokepointBooksAgree` | `Prudent /\ LeaseHolds => (Spec => []BooksAgree)` |
| `ChokepointDailyCap` | `Prudent => (Spec => []DailyCapHolds)` |

`SendInv` is about who may still send: once `RUNNING` is durable nobody claims the row to write
again, so a second send would need a second worker between `RUNNING` and its send, and
there is none. `MoneyInv` ties the broker's knowledge of a change to its send and a row
closed as not written to a request that never left or was refused for good. `BooksInv`
adds who drives a row, so that nobody writes one of the four books over another's. `Prudent`
(`GatesMayFail => ` one worker) and `LeaseHolds` are the assumptions of section 3 under which
TLC checks the two; without them they are false (section 5).

The daily cap rests on two more. `DatesInv` orders the dates of one change: made no later
than entered in the ledger, entered no later than today, and what is still reserved is not
entered yet. `ClaimsFit`
says of today alone that the raises still reserved, of whatever day, and those made today,
beside all cuts ever made, fit the cap. It takes three kinds of step to disturb it (`CapStepKinds`):
the gates admit a change, and the reservations and the ledger they add up are at least what
`ClaimsFit` counts (`GatesCountTheClaims`); the platform makes one, which was reserved
(`MoneyFollowsTheWrite`); a reservation ends or the day does, and today's raises leave the
count. A past day is never added to (`PastDaysStay`), so each day keeps the bound it ended with.

### The write path

`WritePath_proofs`, for any proposals, packages, workers, slots, accounts and caps:

| theorem | states |
|---|---|
| `PathContainsTheBroker` | `PathSpec => Broker!Spec`, with `Resend = TRUE` |
| `PathImplementsChokepoint` | `PathSpec => ImplementsChokepoint` |
| `PathTypes` | `PathSpec => []PathTypeOK` |
| `PathSound` | `Prudent /\ LeaseHolds => (PathSpec => []PathIsSound)` |
| `PathHoldsBothCaps` | `Prudent => (PathSpec => [](DailyCapHolds /\ SpendWithinCaps))` |

Neither side's guarantee comes first. That a rejection is told only of an untouched key needs
a key that reaches the broker once; that a worker sends once is proved of the chokepoint
over a port that tells no other rejections. `PathInv` therefore holds both at once, and every
step is shown to keep each part from all of them: `BrokerInv` (the invariant of the broker, and of
the proposals' keys alone that they are in one slot at most, so that a refusal speaks of an
untouched key, `OnceInv`; and that a success answered is recorded, `ToldInv`), `SocketInv` (a request is on the socket only if it was sent and has not
been taken; what is answered is in no slot any more, and the answer is true), and the types and `SendInv` of the chokepoint. Packages
may resend as they like: `OnceInv` is stated for a set of keys, and the theorem
of the broker alone is the case of all keys (`~Resend`).

A step of the broker is, for the workers, a step of the port or a stutter (`ChokepointSteps`,
from `StepKinds` of the broker's proofs); `RequestLost`, the reading of a frame and the refusal
nobody hears change only `OnItsWay`, the set of requests that are still on their way. The rest follows from the
theorems of each side, read through the refinement. The lemmas at the start of the
module say that two instances mean the same by the same operator: each `INSTANCE` has
operators of its own, and the provers do not know that they are equal.
`PathAssumption` is what each side assumes of its constants, and that proposals and
packages write under different keys (`exec-` and `pkg-`, `execution_attempt.py` 48-64).

### The guardrails and the brake

`Stopping_proofs`, for any limits, sums and changes; any connections, places, requests and clock:

| theorem | states |
|---|---|
| `AllowedIsAdmissible` | what `Evaluate` allows is `Admissible`, in its effective value |
| `SentAsSigned` | `GuardSpec => []WrittenIsSignedAndAdmissible` |
| `BrakeTypes` | `BrakeSpec => []BrakeTypeOK` |
| `BrakeReadingSees` | `BrakeSpec => []BrakeIsSeen` |
| `BrakeAnswersHold` | `BrakeSpec => []BrakeHolds` |
| `StoppingTypes` | `StoppingSpec => []TypesOK` |

`Admissible` says what a change may do without clamping anything. `ClampReaches` is the
heart of the first: band and then step give a value at most one step away, inside the
band unless one step is too short (`ScaledType`: the rounded step is a natural number);
`NoCapReason` reads a cap off an empty set of reasons. For the second, the invariant says nothing of
what is written before the gates have passed; `GuardIInv` adds that what the gates
admitted is what they evaluated, allowed, with the value that was signed
(`AdmittedIsSigned`), and stays so while limits and sums move. It rests on
`GuardrailAssumption`: limits are numbers with floor below ceiling, as the table's checks
have it, a creation starts from nothing and a status carries no amount.

Of the brake, `SeenInv` says that what has been firm since a reading began is found by it, in
the scopes read already or still to be read. For what was answered, `LockInv` says who holds
the account's lock, `RowsInv` which row is written and not committed (the transaction of one
holder at a time), and `PromiseInv` which row keeps the promise made to the owner: its mode
is at least what was answered, and for an account it is the only row in force.

### Sessions, grants, caps and connection

`Access_proofs`, for any sessions, codes, handlers, calls and generations of tokens, any
accounts, caps, documents, attempts and callbacks:

| theorem | states |
|---|---|
| `SessionTypes` | `SessionSpec => []SessionTypeOK` |
| `SessionStaysOut` | `SessionSpec => LoggedOutStaysOut` |
| `SessionServesOnce` | `SessionSpec => []ConfirmationServesOnce` |
| `OAuthTypes` | `OAuthSpec => []OAuthTypeOK` |
| `OAuthConsent` | `OAuthSpec => []ConsentIsTraceable` |
| `CapsTypes` | `CapsSpec => []CapsTypeOK` |
| `CapsAuthority` | `CapsSpec => []AuthorityHolds` |
| `CapsBudget` | `CapsSpec => []ChangesWithinBudget` |
| `CapsKept` | `CapsSpec => []ConfirmedIsKept` |
| `ConnectionTypes` | `ConnectSpec => []ConnectTypeOK` |
| `ConnectionHolds` | `ConnectSpec => []ConnectionIsSound` |
| `AccessTypes` | `AccessSpec => []TypesOK` |

Of the sessions, `CodesInv` ties what a code has opened to the row that spent it; `BurnInv` an
effect to a confirmation burned for it alone and to the one handler that may still carry
it out; `MarksInv` an identification to a mark of its own that is not spent. Of the grants,
`TrustInv` says that a consented request or a live grant keeps its client trusted while any
call is under way; `ConsentInv` what a redemption that has lost knows of the one that won.

`AuthorityHolds` is a fact of the resolution alone: it holds in every state of the right
types. `BudgetInv` counts the changes confirmed in a day against those the document of that day
records, through a write in progress; `KeptInv` says where each step of a write leaves
the file, its durable copy and the copy in memory. Of the connection, `ClaimInv` says that the
claim of an attempt's file comes before its code leaves, and that whoever redeems is alone
with it; `ShownInv` that a status shown to the owner stands for credentials the broker has,
through the answers under way.

### Proposals, jobs and the log

`Decisions_proofs`, for any handlers, values, bridges, leases, plans and transactions:

| theorem | states |
|---|---|
| `ProposalTypes` | `ProposalSpec => []ProposalTypeOK` |
| `ProposalSentAsTheRowSays` | `ProposalSpec => SentAsTheRowSays` |
| `ProposalSentOnce` | `ProposalSpec => []SentOnceInAll` |
| `ProposalUndoneOnce` | `ProposalSpec => []UndoneOnce` |
| `ProposalImplementsPromise` | `ProposalSpec => ImplementsPromise` |
| `RuntimeTypes` | `RuntimeSpec => []RuntimeTypeOK` |
| `RuntimePaidRuns` | `RuntimeSpec => []PaidRunsAreBounded` |
| `RuntimeOneProposal` | `RuntimeSpec => []OneProposalPerDraft` |
| `RuntimeEditIsSeen` | `RuntimeSpec => OwnersEditIsSeen` |
| `AuditTypes` | `AuditSpec => []AuditTypeOK` |
| `AuditVerdict` | `AuditSpec => []VerdictIsRight` |
| `DecisionsTypes` | `DecisionsSpec => []TypesOK` |

`LifeInv` has three parts: what a copy in a request's hands may still do to the row
(`CopiesInv`), that the worker's copy is the row while it is executing (`WorkInv`), and that
what was sent belongs to the attempt under way (`SentInv`);
`UndoneInv` that the undo's mark and its proposal come together.

The refinement needs two invariants more. `ConsentInv`: the values in the row past the approval,
in any copy but that of an approval not saved yet, and in the worker's hands were all
approved, and an undo is about an executed row; a copy saved late then brings back no value nobody approved.
`VerdictInv`: what the platform took was sent, and a row that is executed or failed tells
whether it took it. Each handler and each step of the worker is then one step of `ProposalPromise`
or none (`ReadersPromise` to `WorkerPromise`): only an approval approves, only
`StartRunning` and `Reconcile` begin, only `Send` writes, only `Answer` and `Reconcile`
conclude, and a save of a copy closes or shows nothing (`SavesClose`).

`JobsInv` ties the runs to
the attempts a job counts and the proposals to the draft's mark. For the log, `NumbersInv`
says that a number drawn is above all its transaction has written, and `ChainInv` that, while
no two transactions have appended at once, every row, committed or not, hangs on the newest row
before it that is left. That `ChainOk` implies `NoTrace` needs the first row that was
hashed over a harmed one: the least of a set of numbers, by well-foundedness
(`LeastNumber`), where an induction would need an operator as a parameter.

### The publication

`Settling_proofs`, for any plan, trees, requests of the owner and crashes:

| theorem | states |
|---|---|
| `PublicationTypes` | `SagaSpec => []SagaTypeOK` (with it: the cursor is past the plan just when the publication is completed) |
| `PublicationSignedTree` | `SagaSpec => []SignedTreeInOrder` |
| `PublicationPromise` | `SagaSpec => []PromiseKept` |
| `PublicationSendsOnce` | `SagaSpec => []StepSentOnce` |

`SagaInv` relates the rows of the package and its publication (`RowsInv`), the copies in the hands
of the owner's requests (`RequestInv`) and of the worker (`WorkerInv`) as the locks leave them,
the publication's cursor and the steps (`StepsInv`: all before it done, and what is done is on
the platform), and a package that is early with what has travelled (`EarlyInv`: nothing visible);
a package whose owner was promised that nothing exists stays invalidated (`PromisedInv`).
`SendsInv` adds an attempt's row and the sends, for `PublicationSendsOnce`.
`PlanAssumption`: the plan
ends with the activation, and a step's parent and creatives come before it (`derive_step_plan`).

### What settles

`Settling_proofs` too, for any chats, tries, queues, dates and containers:

| theorem | states |
|---|---|
| `NotificationTypes` | `DeliverySpec => []DeliveryTypeOK` |
| `NotificationOneCall` | `DeliverySpec => []OneCallOneDigest` |
| `WorkerTypes` | `WorkerProcessSpec => []WorkerProcessTypeOK` |
| `WorkerRunsAlone` | `WorkerProcessSpec => []OneRunsCycles` |
| `SettlingDoneByOne` | `SettlingSpec => []DoneByOne` |

`TellInv` says that a row of the outbox is reserved before its one call and that the row in
hand has had none; `DigestInv` that an entry still waiting has been in no digest, and one in
the message in hand in this one at most. `WorkerLockInv`: a process that runs loops with its
session whole holds the lock. `ClockAssumption` asks for one chat at least: without one there
is no sender (`_build_messenger`).

### Sums

`SumTheorems` is about `SumFunctionOnSet` of the community modules, for any function with whole
values on any finite set: one element more or less (`SumAdd`, `SumRemove`), two sets
(`SumUnion`), and which of two sums is the larger (`SumCompare`). The fold is defined by a
`CHOOSE` among the functions that satisfy a recursion, so first there must be one (`SomeSums`)
and only one (`OneSum`); and the element the fold takes off first is nobody's choice, so that
any may be (`SumRemove`) is an induction. The library's induction theorems take an operator
as a parameter, which no installed prover can instantiate. `SubsetInduction` takes a set of
sets instead, from the well-foundedness of the natural numbers (`LeastOf`).

### What the proofs changed

* `EmergencyBrake` had a `CASE` with overlapping guards, whose value TLA+ leaves open (TLC
  takes the first): it could not be reasoned about and is an `IF` now.
* Several type invariants were not inductive (a hash without its own row, an outbox
  without its keys, a job's context beyond the edits): each states now what a step keeps.
* The sums of `BrokerWriteLedger` and `ExecutionChokepoint` are `SumFunctionOnSet`s: the
  `MapThenSumSet` they were takes an operator.
* `SpendGuardrails` and `NotificationDelivery` name the sets (of reasons, of phases) they
  wrote as strings or put together from strings, which no prover reads.

### What is not

* `TypesOK` of `MCSettling`: each of its parts is proved of its own module (the chokepoint's
  for any constants), their conjunction in the composition is only model-checked. The other
  three `TypesOK` are theorems.
* Liveness (`PublicationSettles`, `WorkSettles`) and everything with `ENABLED`: the prover
  does not treat fairness.

## 5. What the code does not do

Findings with a run:

1. **An upload closes every account** (`broker_upload_barrier`). `admit_upload` records its
   success in `idempotent_writes` only; the legacy barrier takes the row for one of an old
   binary and denies every later write. In a package the creative comes before the
   ads, so its remaining steps are denied.
2. **A package is failed though it wrote** (`publication_failed`). That a step was ever
   uncertain is remembered only by the package being in `VERIFYING`. Uncertain step,
   halt (`PARTIALLY_PUBLISHED`, nothing counted), resumption (`PUBLISHING`), second halt
   before the receipt is read: `FAILED`, and the owner is invited to propose it again.

3. **The log breaks by itself** (`audit_chain`). The trigger reads the last row without a
   lock, and numbers are drawn before it runs. Of two transactions that append at once
   neither sees the other's row: both hang on the same row, or the lower number on the higher
   one. The verifier then reports the chain broken from there on, for ever, which
   `safent-bundle/agent/instructions.md:61` treats as critical. Without such an overlap the
   verdict is right (`VerdictIsRight`); after one it says nothing of later rows.

4. **A change whose limits moved is failed, not invalidated** (`guardrail_changed`). When
   the owner moves a limit between the approval and the gates and the clamp comes out
   otherwise, `AuthorizationVerifier` compares the value before the verdict, so it never
   gets to the error that invalidates the proposal: the row fails and the proposal stays
   scheduled with nothing to execute it. Nothing wrong is sent (`WrittenIsSignedAndAdmissible`).

Statements of docs or comments that the model refutes, each kept in its module with
the reason; add the name to the cfg of the run to see the counterexample:

| statement | module (run) | what happens |
|---|---|---|
| `OneUploadPerKey` | `BrokerWriteLedger` (`broker_retry`) | lookup, await, record without a reservation; `write_pipeline.py` 322-324 promises otherwise |
| `UnsettledIsReserved` with two workers and `GatesMayFail = TRUE` | `ExecutionChokepoint` (`chokepoint_stall`) | an error inside the gates rolls the claim back, yet the handler saves the row and releases a reservation another worker now needs |
| `BlockedIsReevaluated` | `ExecutionChokepoint` (`settling`, as `Reevaluated == Chokepoint!BlockedIsReevaluated` in `MCSettling`) | what the brake stopped is never looked at again, though the comments call it reevaluable |
| `AnswerIsExact` | `EmergencyBrake` (`chokepoint_stall`) | `sql_brake_state.py` 132-134; everything and a business have no lock: of two requests at once the second waits in the index, leaves `ALL` as it is and answers its own `AUTONOMOUS`. The brake is never weaker than answered (`BrakeHolds`) |
| `OnlyOneRuns` | `WorkerProcess` (`settling`) | `single_worker_lock.py` 1-2; a worker whose session the database ended (a restart of the database between two cycles, a dropped connection) never looks at its lock again, and a second container gets it |
| `IgnoringIsStricter` | `CapsStore` (`access`) | `hard_caps_policy.py:8`; lines 13-14 of `caps_state.py` say the same; where the file's entry is above the panel's cap, ignoring the panel state gives back the file's higher amounts |
| `RevocationIsFinal` | `McpOAuth` (`access`) | a refresh under way writes the whole grant back |
| `RevokedIsTerminal` | `PlatformConnect` (`access`) | the health check saves the row it read before the revocation |
| `ApprovedValueIsFixed`, `OnlyAnEditReopens`, `TapDecidesWhatItShows` | `ProposalLifecycle` (`decisions`) | a note, a postponement or a rule cycle saves the row it read before an approval; a card's group is read again after its hash was compared. What is sent still is what the row says and what was signed (`SentAsTheRowSays`) |
| `AcknowledgedIsSettled` | `RuntimeJobs` (`decisions`) | after Retry the hash of the failed report is still there: the same report again is acknowledged and the job goes on running |
| `ResumedStepIsFiled` | `PackagePublication` (`publication`) | a step already done whose entity could not be registered is reconciled after a resumption, and the trigger refuses to file it again |
| `NoLimbo` | `PackagePublication` (`publication`) | an owner's note read while the package was publishing, and saved after the halt, puts the package back to publishing with its publication halted |
| `ResumeRunningIsNoOp` | `PackagePublication` (`publication`) | a resumption that read a running publication, saved after a brake halted it, sets it running again |
| `OneCopyPerMessage` | `NotificationDelivery` (`settling`) | `value_objects.py` 55-57, "para que un reintento nunca duplique el mensaje", and `notification.py` 25-29; the dedupe key stops a second call of the messenger (`OneCallOneDigest`), but within the one call `_with_retry` sends again after a `TelegramNetworkError`, three times in all (`aiogram_messenger.py` 200-217), and a timeout may hide a message that arrived: a chat may be told the same thing three times |
| `DigestStepIsWhole` | `NotificationDelivery` (`settling`) | a retry after the queue was taken reports SUCCESS with nothing told; an error Telegram's client does not catch in the first chat skips the second |
| `DigestHourIsKept` | `NotificationDelivery` (`settling`) | outside active hours the next tick is an interval plus the cycle's own duration away, and may step over the digest's hour |

Also seen, and stated nowhere in the source, so listed under hazards only: an execution
that ends in doubt before anything was sent (withdrawal, expiry or a read error after the
gates, a `FAILED` the broker answers before reserving) keeps its reservation for ever. A brake
widened during a reading (everything pressed once it was read, the account's lifted
before it is read) is missed by that reading.

## 6. Not modelled, and why

* **Pure evaluation and read models**: rules, signals, opportunities, optimization,
  metrics, catalog, economics, CRM, integrations, panel. They read snapshots and
  return values or rows; their correctness is of data, with no state of two actors.
  They are most of the code, which is why the map covers a small share of it.
* **Plumbing**: REST and MCP routers, composition, settings, tools, the user interface,
  build files.
* **Media** (creative, brand): external models and files.
* **Cryptography**: signatures, hashes, PKCE and TOTP are taken to be unforgeable; a
  caller knows a secret or does not.
* **Parts of modelled components**: `PROJECT.json` names them component by component. The
  largest are the Meta adapter (same pipeline as Google's), the pairing of a Telegram chat and the confirmation
  card of its brake command, App credentials and the
  Composio lease of a connection.

## 7. Plan

`TypesOK` of `MCSettling` as a theorem of the composition (section 4, "What is not").
