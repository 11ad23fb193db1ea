----------------------------- MODULE MCSettling -----------------------------
(***************************************************************************)
(* What the system does on its own and has to bring to an end, for TLC:    *)
(* the executions in the queue, the drafts the native runtimes prepare,    *)
(* the connection of a platform, the notification cycle and the worker     *)
(* process.  They share no variable, so a behaviour belongs to one of      *)
(* them, and the fairness each one assumes is asked of that one only.      *)
(***************************************************************************)
EXTENDS RuntimeJobs, PlatformConnect, NotificationDelivery, WorkerProcess

CONSTANTS
    Approved,       \* the proposal whose execution is queued
    Workers,      \* those that run the chokepoint
    Undated       \* no date in the ledger

VARIABLES
    duty,
    proposal, execution, leased, reservation, ledger, brake, expired, lapsed, day,
    executor, inflight, rejected, writes, receipt, asked, changed, changedOn

\* One raise that fits its day.
Chokepoint ==
    INSTANCE ExecutionChokepoint WITH
        Proposals <- {Approved}, Delta <- [p \in {Approved} |-> 2], DailyCap <- 3,
        Autonomous <- {}, LeaseHolds <- TRUE, GatesMayFail <- FALSE, MaxDay <- 0,
        None <- Undated, inbox <- inflight, worker <- executor, sends <- writes

chokepointVars ==
    <<proposal, execution, leased, reservation, ledger, brake, expired, lapsed, day,
      executor, inflight, rejected, writes, receipt, asked, changed, changedOn>>

SettlingVars ==
    <<duty, chokepointVars, runtimeVars, connectVars, deliveryVars, workerProcessVars>>

SettlingInit ==
    /\ duty \in {"execution", "runtime", "connect", "delivery", "worker"}
    /\ Chokepoint!Init /\ RuntimeInit /\ ConnectInit /\ DeliveryInit /\ WorkerProcessInit
    /\ duty # "runtime" => plan \in Followed

SettlingNext ==
    \/ /\ duty = "execution" /\ Chokepoint!Next
       /\ UNCHANGED <<duty, runtimeVars, connectVars, deliveryVars, workerProcessVars>>
    \/ /\ duty = "runtime" /\ RuntimeNext
       /\ UNCHANGED <<duty, chokepointVars, connectVars, deliveryVars, workerProcessVars>>
    \/ /\ duty = "connect" /\ ConnectNext
       /\ UNCHANGED <<duty, chokepointVars, runtimeVars, deliveryVars, workerProcessVars>>
    \/ /\ duty = "delivery" /\ DeliveryNext
       /\ UNCHANGED <<duty, chokepointVars, runtimeVars, connectVars, workerProcessVars>>
    \/ /\ duty = "worker" /\ WorkerProcessNext
       /\ UNCHANGED <<duty, chokepointVars, runtimeVars, connectVars, deliveryVars>>

\* The fairness of the five specifications, each for its own behaviours.
SettlingFairness ==
    /\ \A w \in Workers : WF_chokepointVars(duty = "execution" /\ Chokepoint!Continue(w))
    /\ WF_chokepointVars(duty = "execution" /\ Chokepoint!LeaseLapses(Approved))
    /\ WF_chokepointVars(duty = "execution" /\ \E w \in Workers : Chokepoint!Claim(w, Approved))
    /\ SF_chokepointVars(duty = "execution"
                            /\ \E w \in Workers : Chokepoint!ReconcileSettles(w, Approved))
    /\ \A b \in Bridges \ Revocable :
          /\ WF_runtimeVars(duty = "runtime" /\ AsksForWork(b))
          /\ SF_runtimeVars(duty = "runtime" /\ Claim(b))
          /\ WF_runtimeVars(duty = "runtime" /\ Heartbeat(b))
          /\ WF_runtimeVars(duty = "runtime" /\ GivesUp(b))
    /\ \A r \in Followed : WF_runtimeVars(duty = "runtime" /\ LeaseLapses(r))
    /\ \A c \in Callbacks :
          /\ WF_connectVars(duty = "connect" /\ CallbackStep(c))
          /\ WF_connectVars(duty = "connect" /\ BrokerStep(c))
    /\ \A s \in Attempts :
          /\ WF_connectVars(duty = "connect" /\ TenMinutesPass(s))
          /\ WF_connectVars(duty = "connect" /\ PollReads(s))
    /\ WF_connectVars(duty = "connect" /\ PollExpires)
    /\ WF_deliveryVars(duty = "delivery" /\ Cycle)
    /\ \A c \in Containers :
          /\ WF_workerProcessVars(duty = "worker" /\ Supervises(c))
          /\ WF_workerProcessVars(duty = "worker" /\ Restarted(c))

SettlingSpec == SettlingInit /\ [][SettlingNext]_SettlingVars /\ SettlingFairness

-----------------------------------------------------------------------------
\* Every variable of the five keeps its type.
TypesOK ==
    /\ Chokepoint!TypeOK /\ RuntimeTypeOK /\ ConnectTypeOK /\ DeliveryTypeOK
    /\ WorkerProcessTypeOK

\* What one must do is not done by two: a reserved notification is put to the
\* messenger in one call, a queued signal in one digest, SENT only for what
\* was delivered (the notification ledger); and of the worker processes whose
\* session is whole one runs its loops (the session lock).
DoneByOne == OneCallOneDigest /\ OneRunsCycles

\* A change the broker confirmed reaches the books and a queued execution is
\* decided or put in doubt (_reconcile, the claim's lease).
ExecutionSettles == Chokepoint!ConfirmedIsSettled /\ Chokepoint!QueuedIsDecided

\* No worker has all its loops only until one has them again.
WorkerIsReplaced == (duty = "worker" /\ Whole = {}) ~> (Whole # {})

\* An execution is settled, a job a native runtime took is settled, an attempt
\* to connect a platform ends, no dead service holds the notification cycle,
\* and a worker that lost a loop is replaced.
WorkSettles ==
    ExecutionSettles /\ RunningIsSettled /\ WaitingEnds /\ CycleEnds /\ WorkerIsReplaced
=============================================================================
