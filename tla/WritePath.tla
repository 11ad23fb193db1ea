------------------------------ MODULE WritePath ------------------------------
(***************************************************************************)
(* The write path from end to end: the workers of ExecutionChokepoint on   *)
(* one side of the broker's socket, the slots of BrokerWriteLedger on the  *)
(* other, and the packages that write through the same broker.             *)
(*                                                                         *)
(* A step is a step of one side.  They meet where a worker sends, a slot   *)
(* takes a request, and an answer comes back; requests and answers may be  *)
(* lost.  What ExecutionChokepoint takes for granted of the broker is no   *)
(* part of this module: it is what has to follow.                          *)
(***************************************************************************)
EXTENDS Integers, FiniteSets

CONSTANTS
    Proposals, Workers, Delta, DailyCap, Autonomous,    \* ExecutionChokepoint
    LeaseHolds, GatesMayFail, MaxDay,
    Accounts, Slots, Requests, CapsOf, Unreadable,      \* BrokerWriteLedger
    TicksPerDay, DaysPerMonth, MaxClock, MaxUploads,
    OtherKeys,       \* keys of package steps: sent again at will
    None

VARIABLES
    proposal, execution, leased, reservation, ledger,   \* ExecutionChokepoint
    brake, expired, lapsed, day, worker, sends, changedOn,
    clock, slots, receipts, outcomes, applied,          \* BrokerWriteLedger
    effects, calls, uploads, sent,
    inbox,           \* requests written to the socket that no slot has read
    answers          \* answers that reached the worker: key and outcome

workerVars ==
    <<proposal, execution, leased, reservation, ledger, brake, expired, lapsed, day,
      worker, sends>>
brokerVars == <<clock, slots, receipts, outcomes, applied, effects, calls, uploads, sent>>
pathVars == <<workerVars, changedOn, brokerVars, inbox, answers>>

\* Nobody promises the broker that a key comes once.
Broker == INSTANCE BrokerWriteLedger WITH
              Keys <- Proposals \union OtherKeys, Resend <- TRUE

-----------------------------------------------------------------------------
(* What the broker's tables and the answers say of a proposal. *)

Receipt ==
    [p \in Proposals |-> IF receipts[p] = None THEN "absent"
                         ELSE IF receipts[p].outcome = "none" THEN "open"
                         ELSE receipts[p].outcome]
Asked == {p \in Proposals : calls[p] > 0}
Changed == {p \in Proposals : effects[p] # None}
Refused == {p \in Proposals : \E out \in Broker!Rejections : <<p, out>> \in answers}

\* The side of the workers, with the socket as it is.
Execution == INSTANCE ExecutionChokepoint WITH
                 receipt <- Receipt, asked <- Asked, changed <- Changed, rejected <- Refused

\* Each side finds what it assumes of its constants, and a proposal writes under
\* a key of its own and uploads nothing (build_idempotency_key).
ASSUME PathAssumption ==
    /\ Broker!UnreadableAssumption /\ Broker!LedgerAssumption
    /\ Broker!UploadKeysAssumption /\ Broker!ParentsAssumption
    /\ Execution!ChokepointAssumption
    /\ Proposals \intersect OtherKeys = {}
    /\ \A q \in Requests : q.key \in Proposals => q.intent.op # "upload"

\* The key of the request a slot holds.
KeyOf(s) == slots[s].req.key

PathInit ==
    /\ Broker!Init
    /\ inbox = {} /\ answers = {}
    /\ Execution!Init

-----------------------------------------------------------------------------
(* The workers, the people and their calendar. *)

\* Success is read off the answer, and nowhere else.
GetsSuccess(w) ==
    /\ Execution!GotSuccess(w)
    /\ <<worker[w].p, "SUCCEEDED">> \in answers

WorkerContinues(w) ==
    \/ Execution!ReadAfterGateError(w) \/ Execution!SaveAfterGateError(w)
    \/ Execution!Revalidate(w) \/ Execution!SkipDrift(w) \/ Execution!ReadError(w)
    \/ Execution!RecheckBrake(w) \/ Execution!StartRunning(w) \/ Execution!Send(w)
    \/ GetsSuccess(w) \/ Execution!GotRejection(w) \/ Execution!NoAnswer(w)

OthersAct(p) ==
    \/ Execution!Approve(p) \/ Execution!Withdraw(p) \/ Execution!Expire(p)
    \/ Execution!LeaseLapses(p)

ExecutionSide ==
    /\ UNCHANGED <<brokerVars, answers>>
    /\ \/ \E w \in Workers :
              \/ WorkerContinues(w) \/ Execution!Crash(w)
              \/ \E p \in Proposals : Execution!Claim(w, p)
       \/ \E p \in Proposals : OthersAct(p)
       \/ Execution!ToggleBrake \/ Execution!Midnight

-----------------------------------------------------------------------------
(* The socket: one connection, one request, one answer. *)

\* Mutant: what was read is not taken off the socket.
TakeAgain(s) ==
    /\ Broker!Receive(s) \/ Broker!ReceiveUpload(s)
    /\ KeyOf(s)' \in inbox \union OtherKeys
    /\ UNCHANGED <<workerVars, changedOn, inbox, answers>>

\* A slot reads a request: of a proposal off the socket, of a package anew.
Take(s) ==
    /\ Broker!Receive(s) \/ Broker!ReceiveUpload(s)
    /\ KeyOf(s)' \in inbox \union OtherKeys
    /\ inbox' = inbox \ {KeyOf(s)'}
    /\ UNCHANGED <<workerVars, changedOn, answers>>

\* The client hung up, or the frame broke before it was whole.
RequestLost(p) ==
    /\ p \in inbox
    /\ inbox' = inbox \ {p}
    /\ UNCHANGED <<workerVars, changedOn, brokerVars, answers>>

\* The answer is written to whoever still holds the connection.
Reply(s) ==
    /\ Broker!Deliver(s)
    /\ \/ /\ KeyOf(s) \in Proposals
          /\ answers' = answers \union {<<KeyOf(s), slots[s].out>>}
       \/ UNCHANGED answers
    /\ UNCHANGED <<workerVars, changedOn, inbox>>

-----------------------------------------------------------------------------
(* The broker behind it. *)

\* The platform dates what it changes by the workers' calendar.
AskPlatform(s) ==
    /\ Broker!CallPlatform(s)
    /\ changedOn' = IF Changed' # Changed
                    THEN [changedOn EXCEPT ![KeyOf(s)] = day] ELSE changedOn
    /\ UNCHANGED <<workerVars, inbox, answers>>

Handle(s) ==
    /\ \/ Broker!StateRead(s) \/ Broker!StateReadFailed(s)
       \/ Broker!Prepared(s) \/ Broker!PreparationFailed(s)
       \/ Broker!RateLimited(s) \/ Broker!Finalize(s)
       \/ Broker!Upload(s) \/ Broker!RecordUpload(s)
    /\ UNCHANGED <<workerVars, changedOn, inbox, answers>>

BrokerByItself ==
    /\ Broker!Tick \/ Broker!Crash
    /\ UNCHANGED <<workerVars, changedOn, inbox, answers>>

PathNext ==
    \/ ExecutionSide
    \/ \E s \in Slots : Take(s) \/ Reply(s) \/ AskPlatform(s) \/ Handle(s)
    \/ \E p \in Proposals : RequestLost(p)
    \/ BrokerByItself

PathSpec == PathInit /\ [][PathNext]_pathVars

-----------------------------------------------------------------------------
(* Properties. *)

\* A request is on its way, for the workers, until it is reserved or its
\* refusal is told: on the socket, in a slot, or lost without a trace.
OnItsWay == {p \in Proposals : sends[p] > 0 /\ Receipt[p] = "absent" /\ p \notin Refused}

Chokepoint == INSTANCE ExecutionChokepoint WITH
                  receipt <- Receipt, asked <- Asked, changed <- Changed,
                  rejected <- Refused, inbox <- OnItsWay

\* The workers over the real broker do only what they do over its abstract port.
ImplementsChokepoint == Chokepoint!Spec

Outcomes == Broker!Recorded \union Broker!Rejections

\* Both sides keep their types, and the socket its own.
PathTypeOK ==
    /\ Broker!TypeOK /\ Chokepoint!TypeOK
    /\ inbox \in SUBSET Proposals
    /\ answers \in SUBSET (Proposals \X Outcomes)

\* A refusal is told only of what was never reserved, and a success only of what
\* the ledger says succeeded, although the broker takes any key again and again.
AnswersAreTrue ==
    \A p \in Proposals :
        /\ p \in Refused => receipts[p] = None /\ calls[p] = 0 /\ effects[p] = None
        /\ <<p, "SUCCEEDED">> \in answers => Receipt[p] = "SUCCEEDED"

\* The books of ads-api are true of the platform itself: answers are true, money
\* is held as long as the platform may have the change, and a row is closed as
\* executed with all its books, and only for a change the platform made.
PathIsSound ==
    /\ AnswersAreTrue
    /\ Chokepoint!MoneyFollowsTheWrite
    /\ Chokepoint!BooksAgree
=============================================================================
