----------------------- MODULE MCPackagePublication -----------------------
(***************************************************************************)
(* The package TLC publishes: a creative, a campaign, an ad set, an ad     *)
(* that needs the creative, and the activation; with every request the     *)
(* owner may make.                                                         *)
(***************************************************************************)
EXTENDS PackagePublication

MCPlan == << [kind |-> "upload",   parent |-> 0, creatives |-> {}],
             [kind |-> "campaign", parent |-> 0, creatives |-> {}],
             [kind |-> "ad_set",   parent |-> 2, creatives |-> {}],
             [kind |-> "ad",       parent |-> 3, creatives |-> {1}],
             [kind |-> "activate", parent |-> 2, creatives |-> {}] >>

MCOwnerOps == {"approve", "reject", "replace", "context", "cancel", "resume"}
=============================================================================
