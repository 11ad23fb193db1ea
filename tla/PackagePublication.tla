------------------------- MODULE PackagePublication -------------------------
(***************************************************************************)
(* The publication of one campaign package (packages/, the saga of         *)
(* ads-worker): the owner approves a tree of entities, the worker creates  *)
(* them step by step through the execution chokepoint and activates the    *)
(* campaign last, while the owner may edit, undo, resume or annotate.      *)
(*                                                                         *)
(* The transactions are those of the code.  The worker reads the           *)
(* publication under a row lock, but the chokepoint it calls commits the   *)
(* shared session twice before the request leaves, which releases the      *)
(* lock; what the step came to is written by a last transaction.  An owner *)
(* request reads the package and its publication without a lock and writes *)
(* them afterwards.  The triggers of the database decide every write       *)
(* against the row as it then is.                                          *)
(***************************************************************************)
EXTENDS Integers, FiniteSets, Sequences

CONSTANTS
    Plan,           \* step_plan of the envelope: [kind, parent, creatives] per step
    Trees,          \* versions of the planned tree (package_hash)
    OwnerOps,       \* requests of the owner the instance allows
    NoTree,         \* nothing written to the platform
    MaxCrashes      \* bound: worker crashes and lost database connections

Requests == {"approve", "reject", "replace", "context", "cancel", "resume"}

ASSUME PlanAssumption ==
    /\ OwnerOps \subseteq Requests /\ NoTree \notin Trees
    /\ Plan \in Seq([kind : STRING, parent : Nat, creatives : SUBSET Nat])
    /\ Len(Plan) > 1 /\ Plan[Len(Plan)].kind = "activate"
    /\ \A i \in DOMAIN Plan :
         /\ Plan[i].kind \in {"upload", "campaign", "ad_set", "ad", "activate"}
         /\ (Plan[i].kind = "activate") = (i = Len(Plan))
         /\ Plan[i].parent \in 0..(i - 1)
         /\ Plan[i].creatives \subseteq {j \in 1..(i - 1) : Plan[j].kind = "upload"}

StepIndexes == 1..Len(Plan)
Uploads     == {i \in StepIndexes : Plan[i].kind = "upload"}
Ads         == {i \in StepIndexes : Plan[i].kind = "ad"}
Activation  == Len(Plan)
Visible     == StepIndexes \ Uploads        \* _VISIBLE_STEP_KINDS
Creating    == Visible \ {Activation}       \* _ENTITY_CREATING_STEP_KINDS

PackageStates == {"proposed", "approved", "publishing", "verifying", "published",
                  "partially_published", "failed", "rejected", "invalidated"}
PublicationStates == {"none", "pending", "running", "completed", "halted"}
StepStates == {"absent", "pending", "running", "done", "failed", "unknown", "blocked"}

VARIABLES
    package,        \* row of campaign_packages: [state, tree]
    publication,    \* row of campaign_package_publications: [state, cursor, tree]
    steps,          \* rows of campaign_package_steps: [state, proposal]
    attempts,       \* rows of executions with the key pkg-<publication>-<step>
    registered,     \* created entities known to ad_entities
    worker,         \* what ads-worker holds in memory and where it is
    request,        \* the owner's request under way, with what it read
    window,         \* "grace": the 45 s of undo, "open", "expired": after 30 min
    barred,         \* the account's brake is engaged, or its channel not enabled here
    travelling,     \* writes on their way to the platform: <<step, tree>>
    remote,         \* tree each step was written from, on the platform
    refusedSteps,   \* writes the platform or the broker refused
    serving,        \* the campaign is active on the platform
    promised,       \* the owner was told that nothing has been created
    sends,          \* history: requests a step sent through the chokepoint
    crashes         \* history: crashes so far

sagaVars == <<package, publication, steps, attempts, registered, worker, request,
              window, barred, travelling, remote, refusedSteps, serving,
              promised, sends, crashes>>
worldVars == <<window, barred, travelling, remote, refusedSteps, serving, sends>>

-----------------------------------------------------------------------------
(* The guards of the database (0042_campaign_packages). *)

PackageTransitions ==
    [s \in PackageStates |->
        CASE s = "proposed"            -> {"approved", "rejected"}
          [] s = "approved"            -> {"publishing", "invalidated", "rejected"}
          [] s = "publishing"          -> {"published", "partially_published", "verifying", "failed"}
          [] s = "verifying"           -> {"published", "partially_published"}
          [] s = "partially_published" -> {"publishing"}
          [] s = "failed"              -> {"proposed"}
          [] OTHER                     -> {}]

PublicationTransitions ==
    [s \in PublicationStates |->
        CASE s = "none"    -> {"pending"}
          [] s = "pending" -> {"running", "halted"}
          [] s = "running" -> {"completed", "halted"}
          [] s = "halted"  -> {"running"}
          [] OTHER         -> {}]

StepTransitions ==
    [s \in StepStates |->
        CASE s = "absent"  -> {"pending"}
          [] s = "pending" -> {"running", "blocked", "failed"}
          [] s = "running" -> {"done", "failed", "unknown"}
          [] s = "unknown" -> {"done", "failed", "blocked"}
          [] s = "blocked" -> {"running", "failed"}
          [] s = "failed"  -> {"pending", "running"}
          [] OTHER         -> {}]

PackageMoves(from, to) == from = to \/ to \in PackageTransitions[from]
PackageGuard(new)      == PackageMoves(package.state, new.state)

PublicationGuard(new) ==
    /\ new.cursor >= publication.cursor
    /\ new.state = publication.state \/ new.state \in PublicationTransitions[publication.state]

\* A receipt is never rewritten, and a step runs only after the earlier ones.
StepGuard(i, old, new) ==
    /\ old = new \/ new \in StepTransitions[old]
    /\ new = "running" => \A j \in 1..(i - 1) : steps[j].state = "done"

-----------------------------------------------------------------------------
Idle == [pc |-> "idle"]
NoRequest == [op |-> "none"]

SagaInit ==
    /\ \E t \in Trees : package = [state |-> "proposed", tree |-> t]
    /\ publication = [state |-> "none", cursor |-> 1, tree |-> NoTree]
    /\ steps = [i \in StepIndexes |-> [state |-> "absent", proposal |-> FALSE]]
    /\ attempts = [i \in StepIndexes |-> "none"]
    /\ registered = {}
    /\ worker = Idle /\ request = NoRequest
    /\ window = "grace" /\ barred = FALSE
    /\ travelling = {} /\ refusedSteps = {}
    /\ remote = [i \in StepIndexes |-> NoTree]
    /\ serving = FALSE /\ promised = FALSE
    /\ sends = [i \in StepIndexes |-> 0]
    /\ crashes = 0

Done(i) == steps[i].state = "done"

\* Rows the worker's open transaction holds: an owner's write waits for them.
PublicationLocked == worker # Idle /\ worker.locked
PackageLocked     == PublicationLocked /\ worker.began

-----------------------------------------------------------------------------
(* Requests of the owner: read and validate, then write and commit. *)

MayRequest(op) ==
    CASE op = "approve" -> package.state = "proposed" /\ ~barred
      [] op = "reject"  -> package.state = "proposed"
      [] op = "replace" -> package.state \in {"proposed", "approved"}
      [] op = "context" -> TRUE
      [] op = "cancel"  -> package.state = "approved" /\ window = "grace"
      [] op = "resume"  ->
            /\ window # "expired"
            /\ \/ package.state \in {"partially_published", "verifying"}
                  /\ publication.state = "halted"
               \/ package.state = "verifying" /\ publication.state = "running"

RequestReads(op) ==
    /\ request = NoRequest
    /\ MayRequest(op)
    /\ request' = [op |-> op, package |-> package, publication |-> publication]
    /\ UNCHANGED <<package, publication, steps, attempts, registered, worker,
                   promised, crashes, worldVars>>

\* What the request wants the package row to be: the whole row as it was
\* read, with the aggregate's own change.
RequestedPackage ==
    LET read == request.package
    IN  CASE request.op = "approve" -> {[read EXCEPT !.state = "approved"]}
          [] request.op = "reject"  -> {[read EXCEPT !.state = "rejected"]}
          [] request.op = "context" -> {read}
          [] request.op = "cancel"  -> {[read EXCEPT !.state = "invalidated"]}
          [] request.op = "replace" ->
                {[state |-> IF read.state = "approved" THEN "invalidated" ELSE "proposed",
                  tree |-> t] : t \in Trees \ {read.tree}}
          [] request.op = "resume"  ->
                {IF read.state = "partially_published"
                 THEN [read EXCEPT !.state = "publishing"] ELSE package}

RequestedPublication ==
    LET read == request.publication
    IN  CASE request.op = "approve" ->
                [state |-> "pending", cursor |-> 1, tree |-> request.package.tree]
          [] request.op = "cancel"  -> [read EXCEPT !.state = "halted"]
          [] request.op = "resume"  -> [read EXCEPT !.state = "running"]
          [] OTHER -> publication

RequestWrites ==
    /\ request # NoRequest
    /\ request.op \in {"cancel", "resume"} => ~PublicationLocked
    /\ ~PackageLocked
    /\ \E new \in RequestedPackage :
         /\ PackageGuard(new)
         /\ request.op = "approve" => publication.state = "none"     \* UNIQUE (package_id)
         /\ PublicationGuard(RequestedPublication)
         /\ package' = new
    /\ publication' = RequestedPublication
    /\ request' = NoRequest
    /\ promised' = (promised \/ request.op = "cancel")
    /\ UNCHANGED <<steps, attempts, registered, worker, crashes, worldVars>>

\* Mutant: the cancellation is answered although its write was refused.
RequestFailsSilently ==
    /\ request # NoRequest
    /\ request' = NoRequest
    /\ promised' = (promised \/ request.op = "cancel")
    /\ UNCHANGED <<package, publication, steps, attempts, registered, worker,
                   crashes, worldVars>>

\* A guard of the database refuses the write, or the request dies: rolled back.
RequestFails ==
    /\ request # NoRequest
    /\ request' = NoRequest
    /\ UNCHANGED <<package, publication, steps, attempts, registered, worker,
                   promised, crashes, worldVars>>

\* Undo of a published campaign: a pause, through a chokepoint of its own.
PauseCampaign ==
    /\ serving
    /\ package.state \in {"published", "partially_published"}
    /\ \E i \in Creating : Plan[i].kind = "campaign" /\ Done(i)
    /\ serving' = FALSE
    /\ UNCHANGED <<package, publication, steps, attempts, registered, worker,
                   request, promised, crashes, window, barred, travelling,
                   remote, refusedSteps, sends>>
-----------------------------------------------------------------------------
(* One step of the publication (RunPackagePublication). *)

Cursor == worker.publication.cursor

\* An open publication, its package, and not within the grace period.
WorkerReads ==
    /\ worker = Idle
    /\ publication.state \in {"pending", "running"}
    /\ ~(package.state = "approved" /\ window = "grace")
    /\ worker' = [pc |-> "read", package |-> package, publication |-> publication,
                  locked |-> TRUE, began |-> FALSE, proposal |-> FALSE, outcome |-> "none"]
    /\ UNCHANGED <<package, publication, steps, attempts, registered, request,
                   promised, crashes, worldVars>>

\* begin_publishing and its save, still uncommitted.
WorkerBegins ==
    LET first == worker.package.state = "approved"
    IN  /\ worker.pc = "read"
        /\ first => PackageGuard([package EXCEPT !.state = "publishing"])
        /\ worker' = [worker EXCEPT !.pc = "begun", !.began = first,
                           !.package = IF first THEN [@ EXCEPT !.state = "publishing"] ELSE @]
        /\ UNCHANGED <<package, publication, steps, attempts, registered, request,
                       promised, crashes, worldVars>>

\* Mutant: the tree is not compared with the one signed.
PreFlightHaltsAnyTree == window = "expired" \/ barred

\* Mutant: the expiry of the approval is only looked at before the first step.
PreFlightHaltsNoExpiry == worker.package.tree # worker.publication.tree \/ barred

\* Before every step: expiry, channel, drift of the tree, brake.
PreFlightHalts ==
    window = "expired" \/ worker.package.tree # worker.publication.tree \/ barred

\* The parent's and the creatives' confirmed receipts, and before the
\* activation every ad's.
Ready(i) ==
    /\ Plan[i].parent # 0 => Done(Plan[i].parent)
    /\ \A j \in Plan[i].creatives : Done(j)
    /\ i = Activation => \A j \in Ads : Done(j)

MayStep(i) == worker.pc = "begun" /\ i = Cursor /\ ~PreFlightHalts /\ Ready(i)

Answered(i, outcome, proposal) ==
    worker' = [worker EXCEPT !.pc = "answered", !.outcome = outcome, !.proposal = proposal]

\* A creative is uploaded within the open transaction, outside the chokepoint
\* and its one key: an upload in doubt is simply sent again.
UploadCreative(i) ==
    /\ MayStep(i) /\ i \in Uploads
    /\ worker' = [worker EXCEPT !.pc = "sent"]
    /\ travelling' = travelling \cup {<<i, worker.package.tree>>}
    /\ refusedSteps' = refusedSteps \ {i}
    /\ UNCHANGED <<package, publication, steps, attempts, registered, request, promised,
                   crashes, window, barred, remote, serving, sends>>

\* The creative is not found, not usable or not the one signed; the guardrails
\* or a missing precondition deny a write before anything is proposed.
Denials(i) == IF i \in Uploads THEN {"failed"} ELSE {"blocked", "failed"}

ExecutorDenies(i) ==
    /\ MayStep(i)
    /\ ~steps[i].proposal
    /\ \E outcome \in Denials(i) : Answered(i, outcome, FALSE)
    /\ UNCHANGED <<package, publication, steps, attempts, registered, request,
                   promised, crashes, worldVars>>

\* Proposal, authorization and execution row, committed with the
\* reservation at the chokepoint's gates; the package and the pending step
\* go with them.  The key of the step is unique.
GatesCommit(i) ==
    /\ MayStep(i) /\ i \notin Uploads
    /\ ~steps[i].proposal
    /\ attempts[i] = "none"
    /\ attempts' = [attempts EXCEPT ![i] = "claimed"]
    /\ package' = IF worker.began THEN worker.package ELSE package
    /\ steps' = [steps EXCEPT ![i].state = IF @ = "absent" THEN "pending" ELSE @]
    /\ worker' = [worker EXCEPT !.pc = "gated", !.locked = FALSE, !.began = FALSE,
                                !.proposal = TRUE]
    /\ UNCHANGED <<publication, registered, request, promised, crashes, worldVars>>

\* Brake, drift, guardrail or signature: the row ends without a write.
ChokepointRefuses(i) ==
    /\ worker.pc = "gated" /\ i = Cursor
    /\ \E status \in {"failed", "blocked"} :
         /\ attempts' = [attempts EXCEPT ![i] = status]
         /\ Answered(i, status, TRUE)
    /\ UNCHANGED <<package, publication, steps, registered, request, promised,
                   crashes, worldVars>>

\* RUNNING is committed before the request leaves.
SendStep(i) ==
    /\ worker.pc = "gated" /\ i = Cursor
    /\ attempts' = [attempts EXCEPT ![i] = "running"]
    /\ worker' = [worker EXCEPT !.pc = "sent"]
    /\ travelling' = travelling \cup {<<i, worker.package.tree>>}
    /\ sends' = [sends EXCEPT ![i] = @ + 1]
    /\ UNCHANGED <<package, publication, steps, registered, request, promised, crashes,
                   window, barred, remote, refusedSteps, serving>>

Applied(i)      == remote[i] # NoTree /\ \A t \in Trees : <<i, t>> \notin travelling
StatusOf(state) == CASE state = "done" -> "executed" [] OTHER -> state

\* What can be known of a write: applied, refused, or nothing for now.
Knowable(i) ==
    {"unknown"} \cup (IF Applied(i) THEN {"done"} ELSE {})
                \cup (IF i \in refusedSteps THEN {"failed"} ELSE {})

\* The answer of the platform, or none; the chokepoint commits what it learns.
Hear(i) ==
    /\ worker.pc = "sent" /\ i = Cursor
    /\ \E outcome \in Knowable(i) :
         /\ Answered(i, outcome, worker.proposal)
         /\ attempts' = IF i \in Uploads THEN attempts
                        ELSE [attempts EXCEPT ![i] = StatusOf(outcome)]
    /\ UNCHANGED <<package, publication, steps, registered, request, promised,
                   crashes, worldVars>>

\* The step has a proposal already: the chokepoint settles an attempt in
\* doubt from the broker's receipt, at the earliest when its lease lapses,
\* and whatever the row then says is the outcome.
Reconcile(i) ==
    /\ MayStep(i) /\ i \notin Uploads
    /\ steps[i].proposal
    /\ IF attempts[i] \in {"claimed", "running", "unknown"}
       THEN \E outcome \in Knowable(i) :
              /\ attempts' = [attempts EXCEPT ![i] = StatusOf(outcome)]
              /\ worker' = [worker EXCEPT !.pc = "answered", !.outcome = outcome,
                                          !.proposal = TRUE,
                                          !.locked = outcome = "unknown"]
       ELSE /\ Answered(i, IF attempts[i] = "executed" THEN "done" ELSE attempts[i], TRUE)
            /\ UNCHANGED attempts
    /\ UNCHANGED <<package, publication, steps, registered, request, promised,
                   crashes, worldVars>>

\* A `failed` step cannot become `blocked`: it is filed as failed again.
Filed(i, outcome) ==
    IF steps[i].state = "failed" /\ outcome = "blocked" THEN "failed" ELSE outcome

\* `done` and `unknown` pass through `running`, except from `unknown`.
FilingAdmitted(i, outcome) ==
    LET old    == IF steps[i].state = "absent" THEN "pending" ELSE steps[i].state
        target == Filed(i, outcome)
    IN  IF target \in {"done", "unknown"} /\ old # "unknown"
        THEN StepGuard(i, old, "running") /\ StepGuard(i, "running", target)
        ELSE StepGuard(i, old, target)

\* The last transaction of a tick.  An aggregate that refuses the outcome
\* halts the publication on its own, any refusal of a guard rolls back.
Conclude(state, recorded, pub, rows, known, admitted) ==
    LET new      == [worker.package EXCEPT !.state = state]
        \* the row as this transaction sees it: its own begin_publishing included
        row      == IF worker.began THEN "publishing" ELSE package.state
        writes   == recorded \/ worker.began
        accepted == recorded => worker.package.state \in {"publishing", "verifying"}
        passes   == /\ accepted /\ admitted /\ PublicationGuard(pub)
                    /\ writes => PackageMoves(row, state)
    IN  /\ worker' = Idle
        /\ package' = IF passes /\ writes THEN new ELSE package
        /\ publication' =
              IF passes THEN pub
              ELSE IF ~accepted /\ publication.state \in {"pending", "running"}
                   THEN [publication EXCEPT !.state = "halted"]
                   ELSE publication
        /\ steps' = IF passes THEN rows ELSE steps
        /\ registered' = IF passes THEN known ELSE registered
        /\ UNCHANGED <<attempts, request, promised, crashes, worldVars>>

\* Nothing visible was created and nothing was ever uncertain: failed.
HaltedState(rows) ==
    IF (\E i \in Visible : rows[i].state = "done") \/ worker.package.state = "verifying"
    THEN "partially_published" ELSE "failed"

HaltPublication(rows, known, admitted) ==
    Conclude(HaltedState(rows), TRUE, [worker.publication EXCEPT !.state = "halted"],
             rows, known, admitted)

HaltBeforeStep ==
    /\ worker.pc = "begun"
    /\ PreFlightHalts \/ ~Ready(Cursor)
    /\ HaltPublication(steps, registered, TRUE)

\* The created entity is registered before its children may be proposed;
\* ad_entities may not know its parent.
MissingEntity(i) ==
    IF i \in Creating \ registered THEN BOOLEAN
    ELSE {i = Activation /\ ~({j \in Creating : Plan[j].kind = "campaign"} \subseteq registered)}

\* Mutant: the last step is taken for one more (new_cursor > len(step_plan)).
AdvancedOpen(i) == [worker.publication EXCEPT !.cursor = i + 1, !.state = "running"]

\* The last step leaves the cursor past the plan.
Advanced(i) ==
    [worker.publication EXCEPT !.cursor = i + 1,
                               !.state  = IF i = Activation THEN "completed" ELSE "running"]

FileOutcome(i) ==
    LET outcome == worker.outcome
        rows    == [steps EXCEPT ![i] = [state    |-> Filed(i, outcome),
                                         proposal |-> worker.proposal]]
        filed   == FilingAdmitted(i, outcome)
        state   == worker.package.state
    IN  /\ worker.pc = "answered" /\ i = Cursor
        /\ CASE outcome = "done" ->
                  \E missing \in MissingEntity(i) :
                    IF missing THEN HaltPublication(rows, registered, filed)
                    ELSE Conclude(IF i = Activation THEN "published" ELSE state,
                                  i = Activation, Advanced(i), rows,
                                  registered \cup ({i} \cap Creating), filed)
             [] outcome = "unknown" ->
                    Conclude(IF state = "publishing" THEN "verifying" ELSE state,
                             state = "publishing",
                             [worker.publication EXCEPT !.state = "running"],
                             rows, registered, filed)
             [] OTHER -> HaltPublication(rows, registered, filed)

\* The tick raises: an attempt with the step's key exists without its
\* proposal being known, or begin_publishing comes too late.
WorkerRaises ==
    /\ \/ /\ worker.pc = "begun" /\ MayStep(Cursor)
          /\ Cursor \notin Uploads /\ ~steps[Cursor].proposal
          /\ attempts[Cursor] # "none"
       \/ /\ worker.pc = "read" /\ worker.package.state = "approved"
          /\ ~PackageGuard([package EXCEPT !.state = "publishing"])
    /\ worker' = Idle
    /\ UNCHANGED <<package, publication, steps, attempts, registered, request,
                   promised, crashes, worldVars>>

\* ads-worker or its database connection is lost: the open transaction with it.
WorkerCrashes ==
    /\ crashes < MaxCrashes
    /\ worker # Idle
    /\ worker' = Idle
    /\ crashes' = crashes + 1
    /\ UNCHANGED <<package, publication, steps, attempts, registered, request,
                   promised, worldVars>>

-----------------------------------------------------------------------------
(* The platform behind the broker, the brake and the clock. *)

PlatformApplies ==
    \E i \in StepIndexes, t \in Trees :
        /\ <<i, t>> \in travelling
        /\ travelling' = travelling \ {<<i, t>>}
        /\ remote' = [remote EXCEPT ![i] = t]
        /\ serving' = (serving \/ i = Activation)
        /\ UNCHANGED <<package, publication, steps, attempts, registered, worker, request,
                       promised, crashes, window, barred, refusedSteps, sends>>

PlatformRefuses ==
    \E i \in StepIndexes, t \in Trees :
        /\ <<i, t>> \in travelling
        /\ travelling' = travelling \ {<<i, t>>}
        /\ refusedSteps' = refusedSteps \cup {i}
        /\ UNCHANGED <<package, publication, steps, attempts, registered, worker, request,
                       promised, crashes, window, barred, remote, serving, sends>>

ToggleBar ==
    /\ barred' = ~barred
    /\ UNCHANGED <<package, publication, steps, attempts, registered, worker, request,
                   promised, crashes, window, travelling, remote, refusedSteps, serving, sends>>

\* The grace period ends, and later the approval expires.
TimePasses ==
    /\ publication.state # "none"
    /\ window # "expired"
    /\ window' = IF window = "grace" THEN "open" ELSE "expired"
    /\ UNCHANGED <<package, publication, steps, attempts, registered, worker, request,
                   promised, crashes, barred, travelling, remote, refusedSteps,
                   serving, sends>>

WorkerTick ==
    \/ WorkerReads
    \/ WorkerBegins
    \/ HaltBeforeStep
    \/ WorkerRaises
    \/ \E i \in StepIndexes :
          \/ UploadCreative(i)
          \/ ExecutorDenies(i)
          \/ GatesCommit(i)
          \/ ChokepointRefuses(i)
          \/ SendStep(i)
          \/ Hear(i)
          \/ Reconcile(i)
          \/ FileOutcome(i)

SagaNext ==
    \/ \E op \in OwnerOps : RequestReads(op)
    \/ RequestWrites
    \/ RequestFails
    \/ PauseCampaign
    \/ WorkerTick
    \/ WorkerCrashes
    \/ PlatformApplies
    \/ PlatformRefuses
    \/ ToggleBar
    \/ TimePasses

\* The worker ticks every five seconds, and time passes whatever happens.
SagaFairness == WF_sagaVars(WorkerTick) /\ WF_sagaVars(TimePasses)

SagaSpec == SagaInit /\ [][SagaNext]_sagaVars /\ SagaFairness

-----------------------------------------------------------------------------
(* Properties. *)

\* What the rows, the worker and a request may say.
PackageRow == [state : PackageStates, tree : Trees]
OngoingRow ==
    [state  : PublicationStates \ {"completed"},
     cursor : StepIndexes,
     tree   : Trees \cup {NoTree}]
CompletedRow ==
    [state : {"completed"}, cursor : {Len(Plan) + 1}, tree : Trees \cup {NoTree}]
PublicationRow == OngoingRow \cup CompletedRow
StepRow == [state : StepStates \ {"running"}, proposal : BOOLEAN]
Outcomes == {"none", "done", "failed", "unknown", "blocked"}
Stages == {"read", "begun", "gated", "sent", "answered"}
Ticks ==
    [pc : Stages, package : PackageRow, publication : OngoingRow, locked : BOOLEAN,
     began : BOOLEAN, proposal : BOOLEAN, outcome : Outcomes]
WorkerState == {Idle} \cup Ticks
RequestState ==
    {NoRequest} \cup [op : OwnerOps, package : PackageRow, publication : PublicationRow]

\* Every variable keeps its type: the cursor of a publication has left the plan
\* (_advance) just when it is completed, so that no tick and no resumption asks
\* for a step the envelope does not have.
SagaTypeOK ==
    /\ package \in PackageRow /\ publication \in PublicationRow
    /\ steps \in [StepIndexes -> StepRow]
    /\ attempts \in [StepIndexes -> {"none", "claimed", "running", "unknown", "executed",
                                     "failed", "blocked"}]
    /\ registered \subseteq Creating
    /\ worker \in WorkerState /\ request \in RequestState
    /\ window \in {"grace", "open", "expired"}
    /\ travelling \subseteq StepIndexes \X Trees
    /\ remote \in [StepIndexes -> Trees \cup {NoTree}]
    /\ refusedSteps \subseteq StepIndexes
    /\ serving \in BOOLEAN /\ promised \in BOOLEAN /\ barred \in BOOLEAN
    /\ sends \in [StepIndexes -> Nat] /\ crashes \in Nat

\* Whatever reaches the platform comes from the tree the owner signed, and
\* only after everything it hangs on exists there: no edit, undo or resume
\* in between gets another tree published (R3, R5 of RunPackagePublication).
SignedTreeInOrder ==
    \A i \in StepIndexes : \A t \in Trees :
        remote[i] = t \/ <<i, t>> \in travelling =>
            /\ t = publication.tree
            /\ \A j \in 1..(i - 1) : remote[j] = t

\* "Publicacion cancelada. No se ha creado nada": what the owner is told
\* when the undo of the first 45 seconds succeeds stays true, whatever the
\* worker was doing.
PromiseKept == promised => \A i \in Visible : remote[i] = NoTree /\ sends[i] = 0

\* Over crashes, resumptions and uncertain answers, one write request per
\* step leaves the worker at most (BL-4: the key of a step is stable).
StepSentOnce == \A i \in Visible : sends[i] <= 1

\* An open publication ends, by its last step or by a halt: at the latest
\* the expiry of the approval stops a step that keeps failing.
PublicationSettles ==
    publication.state \in {"pending", "running"} ~> publication.state \in {"completed", "halted"}

\* A package is failed, and the owner invited to propose it again, only when
\* nothing was written (_halt: otherwise a second campaign would be risked).
FailedMeansNothingCreated ==
    package.state = "failed" => \A i \in Visible : remote[i] = NoTree

\* A halt with something created can be taken up again: the tick that
\* resumes a step whose entity could not be registered files it again
\* (_execute_step: "una reanudacion vuelve a intentar el registro").
ResumedStepIsFiled ==
    worker.pc = "answered" => FilingAdmitted(Cursor, worker.outcome)

\* "El dueño recupera el control de Deshacer en el primer estado estable":
\* a package that is publishing has a publication the worker still moves.
NoLimbo ==
    package.state \in {"publishing", "verifying"} => publication.state \in {"pending", "running"}

\* Resuming a publication that is already running confirms it and changes
\* nothing (_is_resumable).
ResumeRunningIsNoOp ==
    [][request.op = "resume" /\ request' = NoRequest /\ request.publication.state = "running"
         => UNCHANGED publication]_sagaVars
=============================================================================
