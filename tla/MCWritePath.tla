----------------------------- MODULE MCWritePath -----------------------------
(***************************************************************************)
(* The write path with two slots at the broker: a raise approved by the    *)
(* owner and, beside it, a package that uploads.                           *)
(***************************************************************************)
EXTENDS WritePath, TLC

CONSTANTS p1, k1, s1, s2, acct, w1

MCAccounts == {acct}
MCDelta == p1 :> 2

Intent(op, before, after, package) ==
    [op |-> op, account |-> acct, before |-> before, after |-> after,
     package |-> package, parent |-> None]
Request(k, id, kind, intent, expires) ==
    [key |-> k, intent |-> intent,
     auth |-> [id |-> id, kind |-> kind, intent |-> intent, expires_at |-> expires]]

MCRequests ==
    {Request(p1, 1, "human_approval", Intent("update", 2, 4, FALSE), 1),
     Request(p1, 1, "human_approval", Intent("child", Unreadable, 2, FALSE), 1),
     Request(k1, 2, "package_step", Intent("upload", Unreadable, Unreadable, TRUE), 2)}
MCCaps ==
    [a \in {acct} |-> [daily_cap |-> 3, monthly_cap |-> 3, floor |-> 0,
               ceiling |-> 9, max_step_pct |-> 100, max_changes |-> 2]]
SlotSymmetry == Permutations(Slots)
=============================================================================
