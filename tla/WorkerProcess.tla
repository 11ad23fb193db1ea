---------------------------- MODULE WorkerProcess ----------------------------
(***************************************************************************)
(* The life of ads-worker: a process takes the session lock or refuses to  *)
(* run, starts its loops, and a supervisor ends them all as soon as one of *)
(* them ends: it asks them to stop, cancels what is left after a grace,    *)
(* and only then gives the lock back.  Containers that end are started     *)
(* again.  More of them than one may be running against the database.      *)
(*                                                                         *)
(* The lock is of the session of one connection: the database frees it     *)
(* when it sees that connection end, whether or not the process lives, and *)
(* the process never looks at it again.                                    *)
(***************************************************************************)
EXTENDS Naturals, FiniteSets

CONSTANTS
    Containers,
    Loops,          \* of a worker: observation, execution, and the optional ones
    NoSession

ASSUME WorkerProcessAssumption == NoSession \notin Containers

VARIABLES
    phase,          \* of each process: down, up, stopping or cancelled
    running,        \* its loops that have not ended
    lockedBy,       \* whose session holds the lock
    severed         \* history: processes that lost the session and run on

workerProcessVars == <<phase, running, lockedBy, severed>>

WorkerProcessInit ==
    /\ phase = [c \in Containers |-> "down"]
    /\ running = [c \in Containers |-> {}]
    /\ lockedBy = NoSession /\ severed = {}

-----------------------------------------------------------------------------
\* run: the lock at once or not at all; without it the process ends as it
\* began, to be started again.
WorkerStarts(c) ==
    /\ phase[c] = "down" /\ lockedBy = NoSession
    /\ phase' = [phase EXCEPT ![c] = "up"]
    /\ running' = [running EXCEPT ![c] = Loops]
    /\ lockedBy' = c
    /\ UNCHANGED severed

\* By an error or a cancellation at any time; once asked to stop, at the end
\* of its cycle too.
LoopEnds(c, l) ==
    /\ l \in running[c]
    /\ running' = [running EXCEPT ![c] = @ \ {l}]
    /\ UNCHANGED <<phase, lockedBy, severed>>

AskToStop(c) ==
    /\ phase[c] = "up"
    /\ phase' = [phase EXCEPT ![c] = "stopping"]
    /\ UNCHANGED <<running, lockedBy, severed>>

\* The supervisor wakes up to a loop that has ended.
SupervisorWakes(c) == running[c] # Loops /\ AskToStop(c)

\* SIGTERM or SIGINT: a deployment, a reboot.
Terminated(c) == AskToStop(c)

GraceEnds(c) ==
    /\ phase[c] = "stopping" /\ running[c] # {}
    /\ phase' = [phase EXCEPT ![c] = "cancelled"]
    /\ UNCHANGED <<running, lockedBy, severed>>

Gone(c) ==
    /\ phase' = [phase EXCEPT ![c] = "down"]
    /\ running' = [running EXCEPT ![c] = {}]
    /\ severed' = severed \ {c}

Freed(c) == IF lockedBy = c THEN NoSession ELSE lockedBy

\* Mutant: the lock is given back as soon as the loops are asked to stop.
UnlocksAtOnce(c) ==
    /\ phase[c] \in {"stopping", "cancelled"}
    /\ lockedBy' = Freed(c)
    /\ IF running[c] = {} THEN Gone(c)
       ELSE lockedBy = c /\ UNCHANGED <<phase, running, severed>>

\* Every loop has ended: the lock, the connections, the process.  A lock that
\* was lost cannot be given back, and the process ends all the same.
Unlocks(c) ==
    /\ phase[c] \in {"stopping", "cancelled"} /\ running[c] = {}
    /\ lockedBy' = Freed(c)
    /\ Gone(c)

\* The process is killed; its session stays until the database sees it.
WorkerKilled(c) == phase[c] # "down" /\ Gone(c) /\ UNCHANGED lockedBy

SessionEnds(c) ==
    /\ lockedBy = c
    /\ lockedBy' = NoSession
    /\ severed' = IF phase[c] = "down" THEN severed ELSE severed \cup {c}
    /\ UNCHANGED <<phase, running>>

WorkerProcessNext ==
    \E c \in Containers :
        \/ WorkerStarts(c) \/ SupervisorWakes(c) \/ Terminated(c)
        \/ GraceEnds(c) \/ Unlocks(c) \/ WorkerKilled(c) \/ SessionEnds(c)
        \/ \E l \in Loops : LoopEnds(c, l)

\* What the supervisor does to its end, a cancelled loop's end included; a
\* loop that is only asked to stop may be waiting for an answer.
Supervises(c) ==
    \/ SupervisorWakes(c) \/ GraceEnds(c) \/ Unlocks(c)
    \/ phase[c] = "cancelled" /\ \E l \in Loops : LoopEnds(c, l)

\* restart: unless-stopped, and a database that sees a dead connection.
Restarted(c) == WorkerStarts(c) \/ (phase[c] = "down" /\ SessionEnds(c))

WorkerProcessFairness ==
    \A c \in Containers : WF_workerProcessVars(Supervises(c)) /\ WF_workerProcessVars(Restarted(c))

WorkerProcessSpec ==
    WorkerProcessInit /\ [][WorkerProcessNext]_workerProcessVars /\ WorkerProcessFairness

-----------------------------------------------------------------------------
\* Every variable keeps its type.
WorkerProcessTypeOK ==
    /\ phase \in [Containers -> {"down", "up", "stopping", "cancelled"}]
    /\ running \in [Containers -> SUBSET Loops]
    /\ lockedBy \in Containers \cup {NoSession}
    /\ severed \subseteq Containers

Working == {c \in Containers : running[c] # {}}

\* Of the processes whose session is whole, one runs its loops at most, to the
\* last of them: the lock is given back after the loops have ended, however
\* they end.
OneRunsCycles == Cardinality(Working \ severed) <= 1

\* "Never leave a half-alive worker" (worker_supervisor.py): when no worker has
\* all its loops, after a failure, a deployment or a crash, one has them again.
Whole == {c \in Containers : running[c] = Loops}
WorkerReturns == (Whole = {}) ~> (Whole # {})

-----------------------------------------------------------------------------
\* A statement the code does not keep.

\* The lock "impide que dos procesos ads-worker corran ciclos a la vez"
\* (single_worker_lock.py): a process that has lost the session of its lock
\* keeps running its loops, and the database gives the lock to another.
OnlyOneRuns == Cardinality(Working) <= 1
=============================================================================
