----------------------------- MODULE CapsPolicy -----------------------------
(***************************************************************************)
(* The effective caps of one account (broker/domain/hard_caps_policy.py):  *)
(* what the operator's file declares and what the owner set from the       *)
(* panel, field by field the lower one, the panel's part never above the   *)
(* spend envelope of the file.  Amounts are integers in minor units.       *)
(*                                                                         *)
(* A file entry and an envelope are functions on Fields, what the panel    *)
(* set is one on SettableFields: the floor is never the panel's.           *)
(***************************************************************************)
EXTENDS Integers

CONSTANT None       \* no entry, no envelope, nothing set from the panel

SettableFields == {"daily", "monthly", "ceiling"}
Fields == SettableFields \cup {"floor"}

Amounts      == [SettableFields -> Int]

Lower(x, y) == IF x <= y THEN x ELSE y

ClampToEnvelope(panel, envelope) ==
    [f \in SettableFields |-> Lower(panel[f], envelope[f])]

\* Mutant: the envelope is only checked when a value is stored.
ResolveUnclamped(file, panel, envelope) ==
    IF envelope = None \/ panel = None THEN file
    ELSE [f \in Fields |->
            IF file = None THEN IF f = "floor" THEN envelope["floor"] ELSE panel[f]
            ELSE IF f = "floor" THEN file["floor"] ELSE Lower(panel[f], file[f])]

\* Without an envelope the panel's state is ignored as a whole; None means
\* that the account has no caps, so nothing can be written to it.
ResolveEffectiveCaps(file, panel, envelope) ==
    IF envelope = None \/ panel = None THEN file
    ELSE LET clamped == ClampToEnvelope(panel, envelope)
             floor   == IF file = None THEN envelope["floor"] ELSE file["floor"]
         IN  [f \in Fields |->
                IF f = "floor" THEN floor
                ELSE IF file = None THEN clamped[f] ELSE Lower(clamped[f], file[f])]


\* `tighter` lets nothing through that `other` would not: no caps at all deny
\* everything, otherwise every upper bound is at most the other's.
AtMostAsPermissive(tighter, other) ==
    \/ tighter = None
    \/ other # None /\ \A f \in SettableFields : tighter[f] <= other[f]

\* What a set request must satisfy besides its currency.
Coherent(panel, envelope) ==
    /\ panel["daily"] <= panel["monthly"]
    /\ panel["daily"] <= panel["ceiling"]
    /\ envelope["floor"] <= panel["ceiling"]

WithinEnvelope(panel, envelope) ==
    \A f \in SettableFields : panel[f] <= envelope[f]
=============================================================================
