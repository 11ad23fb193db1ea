---------------------------- MODULE HardCapCheck ----------------------------
(***************************************************************************)
(* The broker's own spending ceiling (broker/domain/write_authorization.py,*)
(* check_hard_caps and its helpers): the last arithmetic between a signed  *)
(* change and the advertising platform.  It denies, it never clamps, so    *)
(* each check is a predicate: TRUE is Python's None, nothing to object.    *)
(*                                                                         *)
(* Amounts are minor units (cents).  Unreadable stands for Python's None:  *)
(* the value of the change is not money.                                   *)
(***************************************************************************)
EXTENDS Integers

CONSTANT Unreadable   \* money_minor_units(...) is None

ASSUME UnreadableAssumption == Unreadable \notin Int

\* broker.infrastructure.caps_config.AccountCaps, after resolution.
AccountCaps ==
    [daily_cap    : Nat, monthly_cap : Nat,
     floor        : Nat, ceiling     : Nat,
     max_step_pct : Nat, max_changes : Nat]

Abs(n) == IF n < 0 THEN -n ELSE n

\* Python's round(n / d) for n >= 0, d > 0: to nearest, ties to the even one.
RoundHalfEven(n, d) ==
    LET q == n \div d
        r == n % d
    IN  IF 2 * r > d \/ (2 * r = d /\ q % 2 = 1) THEN q + 1 ELSE q

MaxStep(caps, before) == RoundHalfEven(before * caps.max_step_pct, 100)

WithinBounds(caps, before, after) ==
    /\ after \in caps.floor .. caps.ceiling
    /\ Abs(after - before) <= MaxStep(caps, before)

\* today and month: net delta already applied or reserved in that window.
WithinSpendCaps(caps, delta, today, month) ==
    /\ today + delta <= caps.daily_cap
    /\ month + delta <= caps.monthly_cap

\* A budget that only goes down (or stays) is never held against the caps.
WithinMoneyCaps(caps, before, after, today, month) ==
    /\ WithinBounds(caps, before, after)
    /\ after > before => WithinSpendCaps(caps, after - before, today, month)

\* A creation has no previous amount, and one nobody can read is refused.
WithinCreationCaps(caps, before, after, today, month) ==
    /\ after # Unreadable
    /\ before = 0
    /\ after \in caps.floor .. caps.ceiling
    /\ WithinSpendCaps(caps, after, today, month)

WithinHardCaps(caps, before, after, count, today, month, creation) ==
    /\ count < caps.max_changes
    /\ IF creation
       THEN WithinCreationCaps(caps, before, after, today, month)
       ELSE Unreadable \notin {before, after} =>
                WithinMoneyCaps(caps, before, after, today, month)

-----------------------------------------------------------------------------
\* The two deltas the pipeline derives from one change: the signed one it
\* writes down once applied, and the positive one a reservation holds back.
\* Python's `or 0` makes a reservation read an unreadable amount as nothing.
Amount(v) == IF v = Unreadable THEN 0 ELSE v

SignedDelta(before, after) ==
    IF Unreadable \in {before, after} THEN 0 ELSE after - before

PositiveDelta(before, after) ==
    LET delta == Amount(after) - Amount(before)
    IN  IF delta > 0 THEN delta ELSE 0
=============================================================================
