------------------------------ MODULE MCAccess ------------------------------
(***************************************************************************)
(* The four doors through which authority enters the system, for TLC: the  *)
(* caps files of the broker, the MCP grants, the owner's sessions and the  *)
(* platform credentials.  They share no variable (two file trees of the    *)
(* broker, two groups of tables), so no interleaving between two of them   *)
(* shows anything: a behaviour belongs to one of them.                     *)
(***************************************************************************)
EXTENDS CapsStore, McpOAuth, OwnerSession, PlatformConnect, TLC

CONSTANTS acctA, acctB, call1, call2, hand1, hand2, back1, back2

VARIABLE door

AccessVars == <<door, capsVars, oauthVars, sessionVars, connectVars>>

AccessInit ==
    /\ door \in {"caps", "oauth", "session", "connect"}
    /\ CapsInit /\ OAuthInit /\ SessionInit /\ ConnectInit
    /\ door # "caps" => capsFile.envelope = None

AccessNext ==
    \/ /\ door = "caps" /\ CapsNext
       /\ UNCHANGED <<door, oauthVars, sessionVars, connectVars>>
    \/ /\ door = "oauth" /\ OAuthNext
       /\ UNCHANGED <<door, capsVars, sessionVars, connectVars>>
    \/ /\ door = "session" /\ SessionNext
       /\ UNCHANGED <<door, capsVars, oauthVars, connectVars>>
    \/ /\ door = "connect" /\ ConnectNext
       /\ UNCHANGED <<door, capsVars, oauthVars, sessionVars>>

AccessSpec == AccessInit /\ [][AccessNext]_AccessVars

-----------------------------------------------------------------------------
(* The caps the owner asks for, one of them above the envelope, a file     *)
(* edited by hand, and caps files with and without an envelope.            *)

MCRequestable ==
    {[f \in SettableFields |-> IF f = "monthly" THEN 2 ELSE 1],
     [f \in SettableFields |-> IF f = "monthly" THEN 4 ELSE 3]}
MCHandEdited == {[f \in SettableFields |-> 9]}
Entry == [f \in Fields |-> IF f = "floor" THEN 0 ELSE 2]
Envelope == [f \in Fields |-> IF f = "floor" THEN 1 ELSE IF f = "monthly" THEN 4 ELSE 3]
MCFiles ==
    {[accounts |-> [a \in CapAccounts |-> IF a = acctA THEN Entry ELSE None],
      envelope |-> e, max_accounts |-> 1] : e \in {Envelope, None}}

\* The calls, the handlers and the callbacks run the same code on any data.
AccessSymmetry ==
    Permutations(OAuthCalls) \cup Permutations(Handlers) \cup Permutations(Callbacks)

-----------------------------------------------------------------------------
\* Every variable of the four keeps its type.
TypesOK == CapsTypeOK /\ OAuthTypeOK /\ SessionTypeOK /\ ConnectTypeOK
=============================================================================
