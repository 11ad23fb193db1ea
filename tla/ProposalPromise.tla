--------------------------- MODULE ProposalPromise ---------------------------
(***************************************************************************)
(* What a proposal promises to its owner, without saying how: nothing is   *)
(* written but a value somebody approved, once in the proposal's life,     *)
(* whatever values it went through; the row says executed only of a value  *)
(* the platform took and failed only of one it did not; a proposal that is *)
(* closed stays closed; and an executed change is undone at most once.     *)
(*                                                                         *)
(* ProposalLifecycle implements it.                                        *)
(***************************************************************************)
EXTENDS Naturals

CONSTANTS Values, Nobody

VARIABLES
    status,            \* "open" until the execution begins or it is closed
    value,             \* what is being written, or was
    approved,          \* values the owner has approved
    writes,            \* mutations sent to the platform, per value
    made,              \* values the platform has taken
    restored           \* compensating proposals

promiseVars == <<status, value, approved, writes, made, restored>>

PromiseInit ==
    /\ status = "open" /\ value = Nobody /\ approved = {}
    /\ writes = [v \in Values |-> 0] /\ made = {}
    /\ restored = 0

\* The owner agrees to a value of the open proposal.
Approve(v) ==
    /\ status = "open"
    /\ approved' = approved \union {v}
    /\ UNCHANGED <<status, value, writes, made, restored>>

\* Rejected, expired or invalidated: for good.
Close ==
    /\ status = "open"
    /\ status' = "closed"
    /\ UNCHANGED <<value, approved, writes, made, restored>>

\* The execution begins, for one of the values approved, and no other any more.
Begin(v) ==
    /\ status = "open"
    /\ status' = "executing" /\ value' = v
    /\ UNCHANGED <<approved, writes, made, restored>>

\* The one write; the platform may take it or not.
Write ==
    /\ status = "executing"
    /\ \A v \in Values : writes[v] = 0
    /\ writes' = [writes EXCEPT ![value] = 1]
    /\ made' \in {made, made \union {value}}
    /\ UNCHANGED <<status, value, approved, restored>>

\* The row tells what became of the write.
Conclude ==
    /\ status = "executing" /\ writes[value] = 1
    /\ status' = IF value \in made THEN "executed" ELSE "failed"
    /\ UNCHANGED <<value, approved, writes, made, restored>>

Undo ==
    /\ status = "executed" /\ restored = 0
    /\ restored' = 1
    /\ UNCHANGED <<status, value, approved, writes, made>>

PromiseNext ==
    \/ UNCHANGED promiseVars      \* what most of its handlers do
    \/ Close \/ Write \/ Conclude \/ Undo
    \/ \E v \in approved : Begin(v)
    \/ \E v \in Values \ approved : Approve(v)

PromiseSpec == PromiseInit /\ [][PromiseNext]_promiseVars
=============================================================================
