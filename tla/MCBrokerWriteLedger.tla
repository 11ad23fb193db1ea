------------------------ MODULE MCBrokerWriteLedger ------------------------
(***************************************************************************)
(* Instances of BrokerWriteLedger for TLC: which changes are signed, by    *)
(* whom and until when.                                                    *)
(***************************************************************************)
EXTENDS BrokerWriteLedger, TLC

CONSTANTS k1, k2, k3, s1, s2, acct

MCAccounts == {acct}

Intent(op, before, after) ==
    [op |-> op, account |-> acct, before |-> before, after |-> after,
     package |-> FALSE, parent |-> None]

Approved(id, intent, expires) ==
    [id |-> id, kind |-> IF intent.package THEN "package_step" ELSE "human_approval",
     intent |-> intent, expires_at |-> expires]

Request(k, id, intent, expires) ==
    [key |-> k, intent |-> intent, auth |-> Approved(id, intent, expires)]

\* Floor 0, ceiling 9, steps up to 100 %: the window sums are what binds.
Caps(daily, monthly, changes) ==
    [a \in {acct} |-> [daily_cap |-> daily, monthly_cap |-> monthly, floor |-> 0,
               ceiling |-> 9, max_step_pct |-> 100, max_changes |-> changes]]

\* Two raises and a cut of one account: any two of them fit a day, the two
\* raises do not, and the cut makes room only once it is known to have worked.
CapsRequests ==
    {Request(k1, 1, Intent("update", 2, 4), 3),
     Request(k2, 2, Intent("campaign", Unreadable, 2), 3),
     Request(k3, 3, Intent("update", 4, 1), 3)}
CapsOfCaps == Caps(3, 3, 2)

\* One key under two authorizations and two contents, and a second key that
\* competes for the same money; authorization 2 dies first.
RetryRequests ==
    {Request(k1, 1, Intent("update", 2, 4), 2),
     Request(k1, 2, Intent("update", 2, 4), 1),
     Request(k1, 3, Intent("update", 2, 3), 2),
     Request(k2, 4, Intent("child", Unreadable, Unreadable), 1)}
CapsOfRetry == Caps(9, 9, 5)

\* A package: a creative, the campaign, and the ad set inside it. The
\* authorization of a step is minted again on resume, so each has two.
PackageStep(op, after, parent) ==
    [Intent(op, Unreadable, after) EXCEPT !.package = TRUE, !.parent = parent]
PackageOf(campaign, ad_set, creative) ==
    {Request(campaign, 1, PackageStep("campaign", 2, None), 1),
     Request(campaign, 2, PackageStep("campaign", 2, None), 2),
     Request(ad_set, 3, PackageStep("child", Unreadable, campaign), 2),
     Request(creative, 4, PackageStep("upload", Unreadable, None), 2)}
PackageRequests == PackageOf(k1, k2, k3)

SlotSymmetry == Permutations(Slots)
=============================================================================
