---------------------------- MODULE MCDecisions ----------------------------
(***************************************************************************)
(* What the owner decides, for TLC: the life of a proposal, the jobs of    *)
(* the native runtimes that draft one, and the log every decision goes to. *)
(* The three share no variable here (a prepared draft becomes a proposal   *)
(* of its own, and the log is followed by itself), so a behaviour belongs  *)
(* to one of them.                                                         *)
(***************************************************************************)
EXTENDS ProposalLifecycle, RuntimeJobs, AuditChain, TLC

VARIABLE side

DecisionsVars == <<side, proposalVars, runtimeVars, auditVars>>

DecisionsInit ==
    /\ side \in {"proposal", "runtime", "audit"}
    /\ ProposalInit /\ RuntimeInit /\ AuditInit
    /\ side # "runtime" => plan \in Followed

DecisionsNext ==
    \/ side = "proposal" /\ ProposalNext /\ UNCHANGED <<side, runtimeVars, auditVars>>
    \/ side = "runtime" /\ RuntimeNext /\ UNCHANGED <<side, proposalVars, auditVars>>
    \/ side = "audit" /\ AuditNext /\ UNCHANGED <<side, proposalVars, runtimeVars>>

DecisionsSpec == DecisionsInit /\ [][DecisionsNext]_DecisionsVars

\* Every one of these sets may be permuted; as the sides do not meet, what is
\* moved in one may be moved along with what is moved in another.
Stays(p) == \A x \in DOMAIN p : p[x] = x
Together(F, G) ==
    {pq[1] @@ pq[2] : pq \in {both \in F \X G : Stays(both[1]) <=> Stays(both[2])}}

DecisionsSymmetry ==
    Together(Permutations(Writers), Together(Permutations(Clerks), Permutations(Leases)))
        \cup Permutations(Bridges)

-----------------------------------------------------------------------------
\* Every variable of the three keeps its type.
TypesOK == ProposalTypeOK /\ RuntimeTypeOK /\ AuditTypeOK
=============================================================================
