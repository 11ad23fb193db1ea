------------------------------ MODULE WritePort ------------------------------
(***************************************************************************)
(* What the broker promises about one idempotency key, without saying how: *)
(* a key is reserved before anything reaches the platform, the platform is *)
(* asked at most once, the verdict recorded first stands for ever, and it  *)
(* says SUCCEEDED only of a change the platform really made.               *)
(*                                                                         *)
(* BrokerWriteLedger implements it; ExecutionChokepoint relies on nothing  *)
(* else about the broker.                                                  *)
(***************************************************************************)
CONSTANT Keys          \* idempotency keys

VARIABLES
    receipt,           \* the durable verdict of each key
    asked,             \* keys whose one mutation was sent to the platform
    changed            \* keys whose mutation the platform really made

portVars == <<receipt, asked, changed>>

Verdicts == {"SUCCEEDED", "FAILED", "UNKNOWN"}

PortTypeOK ==
    /\ receipt \in [Keys -> {"absent", "open"} \union Verdicts]
    /\ asked \in SUBSET Keys
    /\ changed \in SUBSET asked

PortInit ==
    /\ receipt = [k \in Keys |-> "absent"]
    /\ asked = {}
    /\ changed = {}

\* The reservation: durable before anything is sent.
Admit(k) ==
    /\ receipt[k] = "absent"
    /\ receipt' = [receipt EXCEPT ![k] = "open"]
    /\ UNCHANGED <<asked, changed>>

\* The one call to the platform; whether it took effect may stay unknown.
Ask(k) ==
    /\ receipt[k] = "open"
    /\ k \notin asked
    /\ asked' = asked \union {k}
    /\ changed' \in {changed, changed \union {k}}
    /\ UNCHANGED receipt

\* FAILED: nothing was sent.  UNKNOWN: something was, and nobody knows more.
Settle(k, verdict) ==
    /\ receipt[k] = "open"
    /\ verdict = "SUCCEEDED" => k \in changed
    /\ verdict = "FAILED" => k \notin asked
    /\ verdict = "UNKNOWN" => k \in asked
    /\ receipt' = [receipt EXCEPT ![k] = verdict]
    /\ UNCHANGED <<asked, changed>>

PortNext ==
    \E k \in Keys : Admit(k) \/ Ask(k) \/ \E v \in Verdicts : Settle(k, v)

PortSpec == PortInit /\ [][PortNext]_portVars
=============================================================================
