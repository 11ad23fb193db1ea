------------------------------ MODULE McpOAuth ------------------------------
(***************************************************************************)
(* The authorization server of the MCP endpoint (mcp_oauth/): a client     *)
(* registers itself, the owner consents, the client redeems the code once  *)
(* and rotates its refresh token from then on, and the owner revokes.      *)
(*                                                                         *)
(* One client, one authorization request and the family of tokens born     *)
(* from its code.  Each call of the SDK or of the panel is a database      *)
(* transaction under READ COMMITTED: it reads the grant, then its tokens,  *)
(* decides in memory and writes the whole aggregate back.  Row locks are   *)
(* those of the statements: an UPDATE waits for the row and keeps it until *)
(* the commit, the rotation takes the presented token with NOWAIT.         *)
(***************************************************************************)
EXTENDS Integers, FiniteSets

CONSTANTS
    OAuthCalls,     \* transactions that may run at the same time
    Generations     \* bound: rotations of the family (1 is the redeemed pair)

ASSUME OAuthAssumption == Generations \in Nat \ {0}

Gens == 1..Generations
TokenStates == {"none", "active", "rotated", "revoked"}
RequestStates == {"none", "pending", "consented", "redeemed", "denied", "expired", "deleted"}

VARIABLES
    client,         \* oauth_clients: "absent", "registered", "trusted"
    authRequest,    \* oauth_authorization_requests.state
    lapsed,         \* its expires_at has passed (10 min pending, 60 s consented)
    grant,          \* oauth_grants: "none", "live", "revoked"
    access,         \* oauth_tokens of kind access, per generation
    refresh,        \* oauth_tokens of kind refresh, per generation
    expiredGens,    \* generations whose refresh token has expired
    calls,          \* the transactions under way
    revocationTold  \* a caller was answered that the grant is revoked

oauthVars == <<client, authRequest, lapsed, grant, access, refresh, expiredGens,
               calls, revocationTold>>

NoCall == [op |-> "none"]

\* What a transaction has in hand: its step, and of a family what it has read.
FamilyCalls == {"refresh", "revoke", "replay"}
CallState ==
    {NoCall} \cup [op : {"approve"}, pc : {"read", "updated"}]
        \cup [op : {"redeem"}, gen : {0}, pc : {"read", "replayed", "updated"}]
        \cup [op : FamilyCalls, gen : 0..Generations, pc : {"loading"},
              grant : {"live", "revoked"}]
        \cup [op : FamilyCalls, gen : 0..Generations, pc : {"loaded", "decided", "saving"},
              grant : {"live", "revoked"},
              access : [Gens -> TokenStates], refresh : [Gens -> TokenStates]]

OAuthInit ==
    /\ client = "absent" /\ authRequest = "none" /\ lapsed = FALSE
    /\ grant = "none"
    /\ access = [g \in Gens |-> "none"] /\ refresh = [g \in Gens |-> "none"]
    /\ expiredGens = {}
    /\ calls = [c \in OAuthCalls |-> NoCall]
    /\ revocationTold = FALSE

-----------------------------------------------------------------------------
(* Row locks. *)

Others(c) == {d \in OAuthCalls \ {c} : calls[d].op # "none"}

RequestFree(c)  == \A d \in Others(c) : ~(calls[d].op \in {"approve", "redeem"} /\ calls[d].pc = "updated")
GrantFree(c)    == \A d \in Others(c) : calls[d].pc # "saving"
TokenFree(c, g) == \A d \in Others(c) : ~(calls[d].op = "refresh" /\ calls[d].gen = g)

Go(c, next)   == calls' = [calls EXCEPT ![c] = next]
Finish(c)     == Go(c, NoCall)
TablesStay    == UNCHANGED <<client, authRequest, lapsed, grant, access, refresh, expiredGens>>
HistoryStays  == UNCHANGED revocationTold

-----------------------------------------------------------------------------
(* Registration, authorization and consent. *)

RegisterClient ==
    /\ client = "absent"
    /\ client' = "registered"
    /\ UNCHANGED <<authRequest, lapsed, grant, access, refresh, expiredGens, calls>> /\ HistoryStays

StartAuthorization ==
    /\ client # "absent" /\ authRequest = "none"
    /\ authRequest' = "pending" /\ lapsed' = FALSE
    /\ UNCHANGED <<client, grant, access, refresh, expiredGens, calls>> /\ HistoryStays

\* The fresh identification of the owner lies between this read and the update.
ApproveReads(c) ==
    /\ calls[c] = NoCall
    /\ authRequest = "pending" /\ ~lapsed /\ client # "absent"
    /\ Go(c, [op |-> "approve", pc |-> "read"])
    /\ TablesStay /\ HistoryStays

\* UPDATE ... WHERE state = 'PENDING' AND expires_at > now; no row is a 409 or a 410.
ApproveUpdates(c) ==
    /\ calls[c].op = "approve" /\ calls[c].pc = "read" /\ RequestFree(c)
    /\ IF authRequest = "pending" /\ ~lapsed
       THEN Go(c, [calls[c] EXCEPT !.pc = "updated"]) ELSE Finish(c)
    /\ TablesStay /\ HistoryStays

\* Mutant: the consent forgets to trust the client, which is pruned after a day.
ApproveCommitsUntrusted(c) ==
    /\ calls[c].op = "approve" /\ calls[c].pc = "updated"
    /\ authRequest' = "consented" /\ lapsed' = FALSE
    /\ Finish(c)
    /\ UNCHANGED <<client, grant, access, refresh, expiredGens>> /\ HistoryStays

\* The consent and the client's trust are one commit.
ApproveCommits(c) ==
    /\ calls[c].op = "approve" /\ calls[c].pc = "updated"
    /\ authRequest' = "consented" /\ lapsed' = FALSE /\ client' = "trusted"
    /\ Finish(c)
    /\ UNCHANGED <<grant, access, refresh, expiredGens>> /\ HistoryStays


Deny(c) ==
    /\ calls[c] = NoCall /\ RequestFree(c)
    /\ authRequest = "pending" /\ ~lapsed
    /\ authRequest' = "denied"
    /\ UNCHANGED <<client, lapsed, grant, access, refresh, expiredGens, calls>> /\ HistoryStays

-----------------------------------------------------------------------------
(* Redeeming the code. *)

RedeemReads(c) ==
    /\ calls[c] = NoCall
    /\ authRequest \in {"consented", "redeemed"}        \* the code's hash is found
    /\ ~(authRequest = "consented" /\ lapsed)
    /\ Go(c, [op |-> "redeem", gen |-> 0,
              pc |-> IF authRequest = "redeemed" THEN "replayed" ELSE "read"])
    /\ TablesStay /\ HistoryStays

\* Mutant: the replay is decided without waiting for the winner's row.
RedeemUpdatesUnlocked(c) ==
    /\ calls[c].op = "redeem" /\ calls[c].pc = "read"
    /\ Go(c, [calls[c] EXCEPT !.pc = IF RequestFree(c) /\ authRequest = "consented" /\ ~lapsed
                                     THEN "updated" ELSE "replayed"])
    /\ TablesStay /\ HistoryStays

\* UPDATE ... WHERE state = 'CONSENTED' AND expires_at > now, behind the
\* winner's row lock; no row is an expired code or a replay.
RedeemUpdates(c) ==
    /\ calls[c].op = "redeem" /\ calls[c].pc = "read" /\ RequestFree(c)
    /\ CASE authRequest = "consented" /\ ~lapsed -> Go(c, [calls[c] EXCEPT !.pc = "updated"])
         [] authRequest = "consented" /\ lapsed  -> Finish(c)
         [] OTHER                                -> Go(c, [calls[c] EXCEPT !.pc = "replayed"])
    /\ TablesStay /\ HistoryStays


RedeemCommits(c) ==
    /\ calls[c].op = "redeem" /\ calls[c].pc = "updated"
    /\ authRequest' = "redeemed" /\ grant' = "live"
    /\ access' = [access EXCEPT ![1] = "active"]
    /\ refresh' = [refresh EXCEPT ![1] = "active"]
    /\ Finish(c)
    /\ UNCHANGED <<client, lapsed, expiredGens>> /\ HistoryStays

-----------------------------------------------------------------------------
(* Reading the family: the grant's row, then its tokens. *)

\* FOR UPDATE NOWAIT: a token somebody is rotating is not even read.
RefreshLocks(c, g) ==
    /\ calls[c] = NoCall
    /\ refresh[g] # "none"
    /\ TokenFree(c, g)
    /\ \A d \in Others(c) : ~(calls[d].pc = "saving" /\ calls[d].refresh[g] # "none")
    /\ Go(c, [op |-> "refresh", gen |-> g, pc |-> "loading", grant |-> grant])
    /\ TablesStay /\ HistoryStays

\* The panel, or the /revoke endpoint.
RevokeReads(c) ==
    /\ calls[c] = NoCall
    /\ grant # "none"
    /\ Go(c, [op |-> "revoke", gen |-> 0, pc |-> "loading", grant |-> grant])
    /\ TablesStay /\ HistoryStays

\* The family of a code presented again.
ReplayReads(c) ==
    /\ calls[c].op = "redeem" /\ calls[c].pc = "replayed"
    /\ IF grant = "none" THEN Finish(c)
       ELSE Go(c, [op |-> "replay", gen |-> 0, pc |-> "loading", grant |-> grant])
    /\ TablesStay /\ HistoryStays

Loads(c) ==
    /\ calls[c].op # "none" /\ calls[c].pc = "loading"
    /\ Go(c, [op |-> calls[c].op, gen |-> calls[c].gen, pc |-> "loaded",
              grant |-> calls[c].grant, access |-> access, refresh |-> refresh])
    /\ TablesStay /\ HistoryStays

-----------------------------------------------------------------------------
(* The aggregate decides (Grant). *)

RevokedIfActive(tokens) == [g \in Gens |-> IF tokens[g] = "active" THEN "revoked" ELSE tokens[g]]

Revoked(call) ==
    [call EXCEPT !.pc = "decided", !.grant = "revoked",
                 !.access = RevokedIfActive(@), !.refresh = RevokedIfActive(@)]

NextGen(call) == call.gen + 1

\* The presented token and the live access token end, a new pair begins.
Rotated(call) ==
    [call EXCEPT !.pc = "decided",
        !.access  = [g \in Gens |-> IF g = NextGen(call) THEN "active"
                                    ELSE IF @[g] = "active" THEN "rotated" ELSE @[g]],
        !.refresh = [@ EXCEPT ![call.gen] = "rotated", ![NextGen(call)] = "active"]]

RevokeAnswered(c) == revocationTold' = (revocationTold \/ calls[c].op = "revoke")

\* A revoked grant: idempotent, or GrantRevokedError.  An expired refresh
\* token is refused, one that is not active any more revokes the family.
Decides(c) ==
    LET call == calls[c]
    IN  /\ call.op # "none" /\ call.pc = "loaded"
        /\ \/ call.grant = "revoked" /\ Finish(c) /\ RevokeAnswered(c)
           \/ /\ call.grant = "live"
              /\ call.op = "refresh" => call.refresh[call.gen] # "active"
              /\ Go(c, Revoked(call)) /\ HistoryStays
           \/ /\ call.grant = "live" /\ call.op = "refresh"
              /\ call.refresh[call.gen] = "active"
              /\ IF call.gen \in expiredGens THEN Finish(c)
                 ELSE call.gen < Generations /\ Go(c, Rotated(call))
              /\ HistoryStays
        /\ TablesStay

-----------------------------------------------------------------------------
(* Writing it back: the grant's row, then one upsert per token known. *)

SaveGrant(c) ==
    /\ calls[c].op # "none" /\ calls[c].pc = "decided" /\ GrantFree(c)
    /\ Go(c, [calls[c] EXCEPT !.pc = "saving"])
    /\ TablesStay /\ HistoryStays

\* Upserts leave the rows the aggregate does not know as they are.
Upserted(table, known) == [g \in Gens |-> IF known[g] = "none" THEN table[g] ELSE known[g]]

\* ix_oauth_tokens_grant_active: one active token of a kind per grant.
OneActive(table) == Cardinality({g \in Gens : table[g] = "active"}) <= 1

SaveCommits(c) ==
    LET call == calls[c]
        newAccess  == Upserted(access, call.access)
        newRefresh == Upserted(refresh, call.refresh)
    IN  /\ call.op # "none" /\ call.pc = "saving"
        /\ \A g \in Gens : call.refresh[g] # "none" => TokenFree(c, g)
        /\ OneActive(newAccess) /\ OneActive(newRefresh)
        /\ grant' = call.grant
        /\ access' = newAccess /\ refresh' = newRefresh
        /\ Finish(c)
        /\ RevokeAnswered(c)
        /\ UNCHANGED <<client, authRequest, lapsed, expiredGens>>

\* A deadlock victim, a unique index, a lost connection: rolled back.
CallRollsBack(c) ==
    /\ calls[c].op # "none"
    /\ Finish(c)
    /\ TablesStay /\ HistoryStays

-----------------------------------------------------------------------------
(* Time and retention (prune_stale_clients). *)

RequestLapses ==
    /\ authRequest \in {"pending", "consented"} /\ ~lapsed
    /\ lapsed' = TRUE
    /\ UNCHANGED <<client, authRequest, grant, access, refresh, expiredGens, calls>> /\ HistoryStays

\* Earlier pairs expire first: each is issued with the same lifetime.
RefreshExpires(g) ==
    /\ refresh[g] # "none" /\ g \notin expiredGens
    /\ \A h \in 1..(g - 1) : h \in expiredGens
    /\ expiredGens' = expiredGens \cup {g}
    /\ UNCHANGED <<client, authRequest, lapsed, grant, access, refresh, calls>> /\ HistoryStays

\* No row these statements delete or update is held by a transaction.
NothingLocked ==
    \A c \in OAuthCalls : calls[c].op # "none" =>
        \/ calls[c].pc \in {"read", "replayed"}
        \/ calls[c].op \in {"revoke", "replay"} /\ calls[c].pc # "saving"

ExpireStaleRequests ==
    /\ NothingLocked
    /\ authRequest \in {"pending", "consented"} /\ lapsed
    /\ authRequest' = "expired"
    /\ UNCHANGED <<client, lapsed, grant, access, refresh, expiredGens, calls>> /\ HistoryStays

\* Seven days later: no redemption that read it is still running.
DeleteTerminalRequest ==
    /\ \A c \in OAuthCalls : calls[c].op \notin {"approve", "redeem", "replay"}
    /\ NothingLocked
    /\ authRequest \in {"redeemed", "denied", "expired"}
    /\ authRequest' = "deleted"
    /\ UNCHANGED <<client, lapsed, grant, access, refresh, expiredGens, calls>> /\ HistoryStays

\* Also the eviction of the oldest unconsented client; the cascade takes
\* its requests, grants and tokens with it.
DeleteUnconsentedClient ==
    /\ NothingLocked
    /\ client = "registered"
    /\ client' = "absent"
    /\ authRequest' = IF authRequest = "none" THEN "none" ELSE "deleted"
    /\ grant' = "none"
    /\ access' = [g \in Gens |-> "none"] /\ refresh' = [g \in Gens |-> "none"]
    /\ UNCHANGED <<lapsed, expiredGens, calls>> /\ HistoryStays

DeleteExpiredToken(g) ==
    /\ NothingLocked
    /\ g \in expiredGens /\ refresh[g] # "none"
    /\ \A h \in 1..(g - 1) : refresh[h] = "none"
    /\ access' = [access EXCEPT ![g] = "none"]
    /\ refresh' = [refresh EXCEPT ![g] = "none"]
    /\ UNCHANGED <<client, authRequest, lapsed, grant, expiredGens, calls>> /\ HistoryStays

OAuthNext ==
    \/ RegisterClient
    \/ StartAuthorization
    \/ RequestLapses
    \/ ExpireStaleRequests
    \/ DeleteTerminalRequest
    \/ DeleteUnconsentedClient
    \/ \E g \in Gens : RefreshExpires(g) \/ DeleteExpiredToken(g)
    \/ \E c \in OAuthCalls :
          \/ ApproveReads(c)
          \/ ApproveUpdates(c)
          \/ ApproveCommits(c)
          \/ Deny(c)
          \/ RedeemReads(c)
          \/ RedeemUpdates(c)
          \/ RedeemCommits(c)
          \/ \E g \in Gens : RefreshLocks(c, g)
          \/ RevokeReads(c)
          \/ ReplayReads(c)
          \/ Loads(c)
          \/ Decides(c)
          \/ SaveGrant(c)
          \/ SaveCommits(c)
          \/ CallRollsBack(c)

OAuthSpec == OAuthInit /\ [][OAuthNext]_oauthVars

-----------------------------------------------------------------------------
(* Properties. *)

\* Every variable keeps its type.
OAuthTypeOK ==
    /\ client \in {"absent", "registered", "trusted"}
    /\ authRequest \in RequestStates
    /\ lapsed \in BOOLEAN
    /\ grant \in {"none", "live", "revoked"}
    /\ access \in [Gens -> TokenStates] /\ refresh \in [Gens -> TokenStates]
    /\ expiredGens \subseteq Gens
    /\ revocationTold \in BOOLEAN
    /\ calls \in [OAuthCalls -> CallState]

\* A redemption that loses to another one is judged a replay only when the
\* family of the winner is there to be revoked, however the two overlap (C-38).
ReplayFindsFamily ==
    \A c \in OAuthCalls :
        calls[c].op = "redeem" /\ calls[c].pc = "replayed" /\ authRequest \in {"consented", "redeemed"}
            => grant # "none"

\* A client the owner consented to is never pruned under its grant (T016).
GrantKeepsItsClient == grant = "live" \/ authRequest = "consented" => client = "trusted"

\* What the owner consented to can be traced, by whoever judges a code or
\* prunes clients, however the calls overlap.
ConsentIsTraceable == ReplayFindsFamily /\ GrantKeepsItsClient

\* Once the owner has been told that a grant is revoked, it stays revoked:
\* no refresh under way brings it back (C-55, test_panel_revoke_kills_family).
RevocationIsFinal == revocationTold => grant = "revoked"
=============================================================================
