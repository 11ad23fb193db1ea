---------------------------- MODULE RuntimeJobs ----------------------------
(***************************************************************************)
(* The preparation jobs of a launch (runtime/): approving a plan queues a  *)
(* job, local bridges lease it, run a model and report; a report saves the *)
(* job's campaign draft and, when it is complete, promotes it to a         *)
(* proposal.  The owner edits the plan, the workspace and the draft,       *)
(* retries, cancels and revokes connectors meanwhile.                      *)
(*                                                                         *)
(* Every operation of the server is one transaction on rows it locks;      *)
(* authenticating a request is another, earlier one.  Requests and answers *)
(* may be lost, a bridge may die, and a report it gave up on may still     *)
(* arrive.  One launch, one workspace; a job per revision of the plan.     *)
(***************************************************************************)
EXTENDS Integers, FiniteSets

CONSTANTS
    Revisions,      \* of the plan, hashes of its files: an old one may return
    Followed,       \* those whose jobs are followed
    Bridges,        \* bridge processes, each with a connector of its own
    Revocable,      \* connectors the owner may revoke
    Leases,         \* lease tokens, reused once nobody remembers them
    NoOne,
    MaxAttempts,    \* MAX_ATTEMPTS
    MaxEdits,       \* bound: revisions of a draft and of the workspace
    MaxInFlight     \* bound: reports on their way at a time

ASSUME RuntimeAssumption ==
    /\ Revocable \subseteq Bridges /\ Followed \subseteq Revisions
    /\ MaxAttempts \in Nat \ {0} /\ MaxEdits \in Nat \ {0}
    /\ NoOne \notin Leases \cup Bridges \cup Revisions

\* What a model may answer (RuntimeResult): why it has nothing to show, or a
\* campaign.  Whether it calls itself prepared, blocked or failed shows when the
\* report settles its job.
JobOutcomes == {"nothing", "campaign"}

VARIABLES
    plan,           \* the revision the files of the launch have now
    workspace,      \* workspaces.revision
    jobs,           \* runtime_jobs, by revision
    drafts,         \* campaign_drafts, by the revision of their job
    connectors,     \* connectors not revoked
    bridges,        \* what each bridge is doing
    inbox,          \* reports on their way
    proposed,       \* proposals created from each draft
    runs            \* history: claims of a job since an owner asked for it

runtimeVars == <<plan, workspace, jobs, drafts, connectors, bridges, inbox, proposed, runs>>

Unfinished == {"queued", "running", "blocked", "failed"}
Resting == [pc |-> "idle"]
NoJob   == [state |-> "absent", holder |-> NoOne, lease |-> NoOne, valid |-> FALSE,
            attempts |-> 0, context |-> 0, result |-> NoOne]
NoDraft == [revision |-> 0, content |-> "none", proposal |-> FALSE]

RuntimeInit ==
    /\ plan \in Revisions /\ workspace = 1
    /\ jobs = [r \in Followed |-> NoJob]
    /\ drafts = [r \in Followed |-> NoDraft]
    /\ connectors = Bridges
    /\ bridges = [b \in Bridges |-> Resting]
    /\ inbox = {}
    /\ proposed = [r \in Followed |-> 0]
    /\ runs = [r \in Followed |-> 0]

Remembered ==
    {jobs[r].lease : r \in Followed} \cup {m.body.lease : m \in inbox}
        \cup {bridges[b].lease : b \in {c \in Bridges : bridges[c].pc \in {"working", "reporting"}}}

-----------------------------------------------------------------------------
(* The owner. *)

PlanChanges(r) ==
    /\ r # plan /\ plan' = r
    /\ UNCHANGED <<workspace, jobs, drafts, connectors, bridges, inbox, proposed, runs>>

WorkspaceChanges ==
    /\ workspace < MaxEdits
    /\ workspace' = workspace + 1
    /\ UNCHANGED <<plan, jobs, drafts, connectors, bridges, inbox, proposed, runs>>

\* enqueue_job, in the transaction of the approval.
ApprovePlan ==
    /\ jobs' = [r \in Followed |->
          IF r = plan
          THEN IF jobs[r].state = "absent" THEN [NoJob EXCEPT !.state = "queued"] ELSE jobs[r]
          ELSE IF jobs[r].state \in Unfinished
          THEN [jobs[r] EXCEPT !.state = "cancelled"] ELSE jobs[r]]
    /\ UNCHANGED <<plan, workspace, drafts, connectors, bridges, inbox, proposed, runs>>

Retry(r) ==
    /\ jobs[r].state \in {"blocked", "failed"} /\ r = plan
    /\ jobs' = [jobs EXCEPT ![r] = [@ EXCEPT !.state = "queued", !.holder = NoOne,
                                    !.lease = NoOne, !.valid = FALSE, !.attempts = 0]]
    /\ runs' = [runs EXCEPT ![r] = 0]
    /\ UNCHANGED <<plan, workspace, drafts, connectors, bridges, inbox, proposed>>

Cancel(r) ==
    /\ jobs[r].state \in Unfinished
    /\ jobs' = [jobs EXCEPT ![r] = [@ EXCEPT !.state = "cancelled", !.valid = FALSE]]
    /\ UNCHANGED <<plan, workspace, drafts, connectors, bridges, inbox, proposed, runs>>

\* Saved from the panel with the revision it shows.
EditDraft(r) ==
    /\ drafts[r].revision \in 1..(MaxEdits - 1) /\ ~drafts[r].proposal
    /\ drafts' = [drafts EXCEPT ![r] =
                      [drafts[r] EXCEPT !.revision = @ + 1, !.content = "edited"]]
    /\ UNCHANGED <<plan, workspace, jobs, connectors, bridges, inbox, proposed, runs>>

\* promote: once per draft, and only the revision that was read.
Promoted(draft) ==
    IF draft.proposal THEN draft
    ELSE [draft EXCEPT !.proposal = TRUE, !.revision = @ + 1]
\* Mutant: a draft already promoted is proposed again.
ProposalsAgain(draft) == 1

ProposalsOf(draft) == IF draft.proposal THEN 0 ELSE 1

PrepareDraft(r) ==
    /\ drafts[r].revision > 0
    /\ drafts' = [drafts EXCEPT ![r] = Promoted(@)]
    /\ proposed' = [proposed EXCEPT ![r] = @ + ProposalsOf(drafts[r])]
    /\ UNCHANGED <<plan, workspace, jobs, connectors, bridges, inbox, runs>>

Revoke(b) ==
    /\ b \in connectors \cap Revocable
    /\ connectors' = connectors \ {b}
    /\ jobs' = [r \in Followed |->
          IF jobs[r].holder = b /\ jobs[r].state = "running"
          THEN [jobs[r] EXCEPT !.state = "failed", !.lease = NoOne, !.valid = FALSE]
          ELSE jobs[r]]
    /\ UNCHANGED <<plan, workspace, drafts, bridges, inbox, proposed, runs>>

-----------------------------------------------------------------------------
(* Claiming. *)

LeaseLapses(r) ==
    /\ jobs[r].state = "running" /\ jobs[r].valid
    /\ jobs' = [jobs EXCEPT ![r].valid = FALSE]
    /\ UNCHANGED <<plan, workspace, drafts, connectors, bridges, inbox, proposed, runs>>

AsksForWork(b) ==
    /\ bridges[b] = Resting /\ b \in connectors
    /\ bridges' = [bridges EXCEPT ![b] = [pc |-> "claiming"]]
    /\ UNCHANGED <<plan, workspace, jobs, drafts, connectors, inbox, proposed, runs>>

\* Mutant: one attempt more.
GivenUpLate(r) == jobs[r].state = "running" /\ ~jobs[r].valid /\ jobs[r].attempts > MaxAttempts

\* Rows whose lease lapsed for the last time.
GivenUp(r) == jobs[r].state = "running" /\ ~jobs[r].valid /\ jobs[r].attempts >= MaxAttempts

Claimable(r) ==
    ~GivenUp(r) /\ (jobs[r].state = "queued" \/ (jobs[r].state = "running" /\ ~jobs[r].valid))

\* One transaction: rows given up fail, and one row is leased, or cancelled
\* if the plan is another by now.  The draft is read after the commit, and
\* the answer may be lost.
Claim(b) ==
    LET swept == [r \in Followed |->
                     IF GivenUp(r) THEN [jobs[r] EXCEPT !.state = "failed"] ELSE jobs[r]]
    IN  /\ bridges[b].pc = "claiming"
        /\ \/ /\ \A r \in Followed : ~Claimable(r)
              /\ jobs' = swept
              /\ bridges' = [bridges EXCEPT ![b] = Resting]
              /\ UNCHANGED runs
           \/ \E r \in Followed :
                 /\ Claimable(r) /\ r # plan
                 /\ jobs' = [swept EXCEPT ![r].state = "cancelled"]
                 /\ bridges' = [bridges EXCEPT ![b] = Resting]
                 /\ UNCHANGED runs
           \/ \E r \in Followed, lease \in Leases \ Remembered :
                 /\ Claimable(r) /\ r = plan
                 /\ jobs' = [swept EXCEPT ![r] = [swept[r] EXCEPT
                       !.state = "running", !.holder = b, !.lease = lease, !.valid = TRUE,
                       !.attempts = @ + 1, !.context = workspace]]
                 /\ runs' = [runs EXCEPT ![r] = @ + 1]
                 /\ \/ bridges' = [bridges EXCEPT ![b] =
                              [pc |-> "working", job |-> r, lease |-> lease,
                               saw |-> drafts[r].revision]]
                    \/ bridges' = [bridges EXCEPT ![b] = Resting]
        /\ UNCHANGED <<plan, workspace, drafts, connectors, inbox, proposed>>

Leased(b, r, lease) ==
    /\ jobs[r].holder = b /\ jobs[r].lease = lease
    /\ jobs[r].state = "running" /\ jobs[r].valid /\ r = plan

\* A heartbeat the server refuses stops the model, and so does an error.
Heartbeat(b) ==
    /\ bridges[b].pc = "working"
    /\ ~(b \in connectors /\ Leased(b, bridges[b].job, bridges[b].lease))
    /\ bridges' = [bridges EXCEPT ![b] = Resting]
    /\ UNCHANGED <<plan, workspace, jobs, drafts, connectors, inbox, proposed, runs>>

BridgeDies(b) ==
    /\ bridges[b] # Resting
    /\ bridges' = [bridges EXCEPT ![b] = Resting]
    /\ UNCHANGED <<plan, workspace, jobs, drafts, connectors, inbox, proposed, runs>>

-----------------------------------------------------------------------------
(* Reporting. *)

Message(b, body) == [from |-> b, body |-> body]

Finishes(b, outcome) ==
    LET body == [job |-> bridges[b].job, lease |-> bridges[b].lease, outcome |-> outcome,
                 saw |-> IF outcome = "campaign" THEN bridges[b].saw ELSE 0]
    IN  /\ bridges[b].pc = "working"
        /\ bridges' = [bridges EXCEPT ![b] = [pc |-> "reporting", lease |-> body.lease,
                                              body |-> body]]
        /\ Cardinality(inbox) < MaxInFlight
        /\ inbox' = inbox \cup {Message(b, body)}
        /\ UNCHANGED <<plan, workspace, jobs, drafts, connectors, proposed, runs>>

\* No answer: the same report again, and then the next poll.
ReportAgain(b) ==
    /\ bridges[b].pc = "reporting" /\ Cardinality(inbox) < MaxInFlight
    /\ inbox' = inbox \cup {Message(b, bridges[b].body)}
    /\ UNCHANGED <<plan, workspace, jobs, drafts, connectors, bridges, proposed, runs>>

GivesUp(b) ==
    /\ bridges[b].pc = "reporting"
    /\ bridges' = [bridges EXCEPT ![b] = Resting]
    /\ UNCHANGED <<plan, workspace, jobs, drafts, connectors, inbox, proposed, runs>>

Lost(m) ==
    /\ inbox' = inbox \ {m}
    /\ UNCHANGED <<plan, workspace, jobs, drafts, connectors, bridges, proposed, runs>>

\* The answer reaches the bridge if it still waits for it, or is lost.
Answers(m) ==
    /\ inbox' = inbox \ {m}
    /\ \/ /\ bridges[m.from].pc = "reporting" /\ bridges[m.from].body = m.body
          /\ bridges' = [bridges EXCEPT ![m.from] = Resting]
       \/ UNCHANGED bridges

\* report_hash: the outcome, the campaign and the draft revision expected.
Digest(body) == [outcome |-> body.outcome, saw |-> body.saw]

HolderOf(m) == jobs[m.body.job].holder = m.from /\ jobs[m.body.job].lease = m.body.lease
SameReport(m) == jobs[m.body.job].result = Digest(m.body)

\* Mutant: the expected revision is not compared.
SavesAlways(m, draft) == draft.content = "campaign" \/ ~draft.proposal

\* The draft is saved if nobody saved it since the model read it.
Saves(m, draft) ==
    \/ draft.content = "campaign"
    \/ ~draft.proposal /\ draft.revision = m.body.saw

Saved(draft) ==
    IF draft.content = "campaign" THEN draft
    ELSE [draft EXCEPT !.revision = @ + 1, !.content = "campaign"]

Refuses(m) ==
    LET r == m.body.job
    IN  \/ m.from \notin connectors \/ ~HolderOf(m)
        \/ jobs[r].state = "cancelled" \/ r # plan
        \/ ~SameReport(m) /\ ~Leased(m.from, r, m.body.lease)
        \/ /\ ~SameReport(m) /\ jobs[r].context = workspace
           /\ m.body.outcome = "campaign" /\ ~Saves(m, drafts[r])

\* 401, 409, or a report that is already recorded.
ReportChangesNothing(m) ==
    /\ Refuses(m) \/ SameReport(m)
    /\ Answers(m)
    /\ UNCHANGED <<plan, workspace, jobs, drafts, connectors, proposed, runs>>

\* The workspace has moved on since the claim.
ReportBlocked(m) ==
    /\ ~Refuses(m) /\ ~SameReport(m) /\ jobs[m.body.job].context # workspace
    /\ jobs' = [jobs EXCEPT ![m.body.job] = [@ EXCEPT !.state = "blocked", !.valid = FALSE]]
    /\ Answers(m)
    /\ UNCHANGED <<plan, workspace, drafts, connectors, proposed, runs>>

\* A draft that lacks fields, or that promote refuses (caps, accounts,
\* channels), is kept and blocks the job; that of a failed run is kept and
\* never promoted.
ReportSettles(m) ==
    LET r == m.body.job
        draft == Saved(drafts[r])
        Settles(state) ==
            jobs' = [jobs EXCEPT ![r] = [@ EXCEPT !.state = state, !.valid = FALSE,
                                                  !.result = Digest(m.body)]]
    IN  /\ ~Refuses(m) /\ ~SameReport(m) /\ jobs[r].context = workspace
        /\ m.body.outcome = "campaign" => draft.revision <= MaxEdits + 1
        /\ \/ /\ \E state \in {"blocked", "failed"} : Settles(state)
              /\ drafts' = IF m.body.outcome = "campaign"
                           THEN [drafts EXCEPT ![r] = draft] ELSE drafts
              /\ UNCHANGED proposed
           \/ /\ m.body.outcome = "campaign" /\ Settles("prepared")
              /\ drafts' = [drafts EXCEPT ![r] = Promoted(draft)]
              /\ proposed' = [proposed EXCEPT ![r] = @ + ProposalsOf(draft)]
        /\ Answers(m)
        /\ UNCHANGED <<plan, workspace, connectors, runs>>

-----------------------------------------------------------------------------
Bridge(b) ==
    \/ AsksForWork(b) \/ Claim(b) \/ Heartbeat(b) \/ ReportAgain(b) \/ GivesUp(b)
    \/ \E outcome \in JobOutcomes : Finishes(b, outcome)

RuntimeNext ==
    \/ WorkspaceChanges \/ ApprovePlan
    \/ \E r \in Revisions : PlanChanges(r)
    \/ \E r \in Followed :
          Retry(r) \/ Cancel(r) \/ EditDraft(r) \/ PrepareDraft(r)
              \/ LeaseLapses(r)
    \/ \E b \in Bridges : Revoke(b) \/ Bridge(b) \/ BridgeDies(b)
    \/ \E m \in inbox :
          Lost(m) \/ ReportChangesNothing(m) \/ ReportBlocked(m) \/ ReportSettles(m)

RuntimeSpec == RuntimeInit /\ [][RuntimeNext]_runtimeVars

\* Bridges poll for ever, and one that keeps asking is not always killed
\* before its answer; a report is given up, and leases lapse by the clock.
RuntimeFairness ==
    /\ \A b \in Bridges \ Revocable :
          /\ WF_runtimeVars(AsksForWork(b)) /\ SF_runtimeVars(Claim(b))
          /\ WF_runtimeVars(Heartbeat(b)) /\ WF_runtimeVars(GivesUp(b))
    /\ \A r \in Followed : WF_runtimeVars(LeaseLapses(r))

RuntimeFairSpec == RuntimeSpec /\ RuntimeFairness

-----------------------------------------------------------------------------
\* What a job, a draft, a report and a bridge may say; the revision of a draft
\* counts the owner's edits and one report.
DraftRevisions == 0..(MaxEdits + 2)
JobStates == Unfinished \cup {"absent", "prepared", "cancelled"}
JobResults == {NoOne} \cup [outcome : JobOutcomes, saw : DraftRevisions]
JobState ==
    [state : JobStates, holder : Bridges \cup {NoOne}, lease : Leases \cup {NoOne},
     valid : BOOLEAN, attempts : Nat, context : 0..MaxEdits, result : JobResults]
DraftContents == {"none", "edited", "campaign"}
DraftState == [revision : DraftRevisions, content : DraftContents, proposal : BOOLEAN]
ReportBody == [job : Followed, lease : Leases, outcome : JobOutcomes, saw : DraftRevisions]
BridgeState ==
    {Resting} \cup [pc : {"claiming"}]
        \cup [pc : {"working"}, job : Followed, lease : Leases, saw : DraftRevisions]
        \cup [pc : {"reporting"}, lease : Leases, body : ReportBody]

\* Every variable keeps its type, and a valid lease is a lease.
RuntimeTypeOK ==
    /\ plan \in Revisions /\ workspace \in 1..MaxEdits
    /\ jobs \in [Followed -> JobState] /\ drafts \in [Followed -> DraftState]
    /\ \A r \in Followed : jobs[r].valid => jobs[r].lease \in Leases
    /\ connectors \subseteq Bridges /\ bridges \in [Bridges -> BridgeState]
    /\ inbox \subseteq [from : Bridges, body : ReportBody]
    /\ proposed \in [Followed -> Nat] /\ runs \in [Followed -> Nat]

\* From one request of the owner to the next, a runtime is paid for a job
\* MaxAttempts times at most, over bridges that die, leases that lapse and
\* reports that get lost (store.py: no endless paid retry loop).
PaidRunsAreBounded == \A r \in Followed : runs[r] <= MaxAttempts

\* However often a report and the owner's promotion are repeated or overlap,
\* a draft becomes one proposal.
OneProposalPerDraft == \A r \in Followed : proposed[r] <= 1

\* What the owner wrote into a draft is only replaced by a report that saw that
\* very revision (expected_revision).
OwnersEditIsSeen ==
    [][\A r \in Followed :
          drafts[r].content = "edited" /\ drafts'[r].content # "edited" =>
              \E m \in inbox \ inbox' : m.body.saw = drafts[r].revision]_runtimeVars

\* "A lost response can be acknowledged safely" (store.py): a report the bridge
\* sees acknowledged has settled its job.  It does not hold: after the owner's
\* Retry the hash of the failed report is still there, and the same report
\* again is acknowledged and leaves the job running.
AcknowledgedIsSettled ==
    [][\A b \in Bridges, m \in inbox \ inbox' :
          m.from = b /\ bridges[b].pc = "reporting" /\ bridges'[b] = Resting
          /\ ~Refuses(m) => jobs'[m.body.job].state # "running"]_runtimeVars

\* A job that runs ends, whatever dies: its lease lapses, and a bridge that
\* asks for work fails it or takes it up again.
RunningIsSettled ==
    \A r \in Followed : jobs[r].state = "running" ~> jobs[r].state # "running"
=============================================================================
