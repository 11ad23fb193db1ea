--------------------------- MODULE PlatformConnect ---------------------------
(***************************************************************************)
(* "Connect an account": ads-api keeps a row per attempt in PostgreSQL and *)
(* never sees a token, ads-broker keeps the attempt's secret and the       *)
(* tokens in encrypted files, and the provider redirects the browser to a  *)
(* callback that has only the state to show who it is.                     *)
(*                                                                         *)
(* The callback holds the lock of the attempt's row over the whole call to *)
(* the broker, which may outlive it: the client gives up, either process   *)
(* dies, the database refuses the commit. Meanwhile the panel polls, the   *)
(* owner revokes, and the health cycle copies what the broker says of a    *)
(* credential into the row the panel shows.                                *)
(***************************************************************************)
EXTENDS Naturals, FiniteSets

CONSTANTS Attempts,    \* attempts to connect: a state, a session, a connection
          Pasted,      \* those that paste a Meta system-user token: no redirect
          AdAccounts,  \* the accounts the provider lists for a token
          Callbacks,   \* requests of ads-api that complete an attempt
          Nothing,
          MaxBrokerCrashes   \* bound: crashes of ads-api and of ads-broker together

ASSUME PlatformConnectAssumption ==
    Pasted \subseteq Attempts /\ MaxBrokerCrashes \in Nat

VARIABLES
    row,       \* oauth_connect_sessions, by attempt: its status
    rowLock,   \* the callback whose transaction holds the row
    cred,      \* credential_refs as ads-api shows it
    file,      \* the broker's file with the attempt's PKCE verifier
    token,     \* the broker's credential files
    bound,     \* the broker's account files that name a credential
    redeemed,  \* how often the code of an attempt went to the provider
    late,      \* attempts whose ten minutes have passed
    call,      \* what a callback of ads-api is at
    job,       \* what the broker is at, for the request of that callback
    poll,      \* the poll that saw a waiting, expired row
    revoke,    \* the owner's revocation
    health,    \* the health check of one credential
    brokerCrashes

connectVars == <<row, rowLock, cred, file, token, bound, redeemed, late, call,
                 job, poll, revoke, health, brokerCrashes>>

Credentials == Attempts \X AdAccounts
CredentialsOf(s) == {s} \X AdAccounts

Unasked == [at |-> "idle", attempt |-> Nothing, code |-> FALSE]
NoRequestInHand == [at |-> "idle", attempt |-> Nothing]
NoRevoke == [at |-> "idle", of |-> Nothing, saw |-> "none"]
NoHealth == [at |-> "idle", of |-> Nothing, saw |-> "none", probe |-> "none"]

ConnectInit ==
    /\ row = [s \in Attempts |-> "none"]
    /\ rowLock = [s \in Attempts |-> Nothing]
    /\ cred = [k \in Credentials |-> "none"]
    /\ file = [s \in Attempts |-> "none"]
    /\ token = [k \in Credentials |-> "none"]
    /\ bound = {}
    /\ redeemed = [s \in Attempts |-> 0]
    /\ late = {}
    /\ call = [c \in Callbacks |-> Unasked]
    /\ job = [c \in Callbacks |-> NoRequestInHand]
    /\ poll = Nothing
    /\ revoke = NoRevoke
    /\ health = NoHealth
    /\ brokerCrashes = 0

-----------------------------------------------------------------------------
(* Starting an attempt                                                     *)

\* The broker writes its file first; the panel has no URL before ads-api has
\* committed the row, and the file alone is of no use to anybody.
BrokerBegins(s) ==
    /\ s \notin Pasted /\ file[s] = "none" /\ row[s] = "none"
    /\ file' = [file EXCEPT ![s] = "open"]
    /\ UNCHANGED <<row, rowLock, cred, token, bound, redeemed, late, call, job,
                   poll, revoke, health, brokerCrashes>>

AttemptStarts(s) ==
    /\ file[s] = "open" /\ row[s] = "none"
    /\ row' = [row EXCEPT ![s] = "waiting"]
    /\ UNCHANGED <<rowLock, cred, file, token, bound, redeemed, late, call, job,
                   poll, revoke, health, brokerCrashes>>

TenMinutesPass(s) ==
    /\ file[s] # "none" /\ s \notin late
    /\ late' = late \cup {s}
    /\ UNCHANGED <<row, rowLock, cred, file, token, bound, redeemed, call, job,
                   poll, revoke, health, brokerCrashes>>

-----------------------------------------------------------------------------
(* The callback, in ads-api                                                *)

Ended(c) == call' = [call EXCEPT ![c] = Unasked]

\* The provider redirects the browser, perhaps more than once, with a code or
\* with a refusal; or the owner pastes a token.
CallbackArrives(c, s, code) ==
    /\ call[c] = Unasked /\ job[c] = NoRequestInHand
    /\ IF s \in Pasted
       THEN code /\ \A d \in Callbacks : job[d].attempt # s /\ call[d].attempt # s
                 /\ redeemed[s] = 0
       ELSE row[s] # "none"
    /\ call' = [call EXCEPT ![c] =
                  [at |-> IF s \in Pasted THEN "asking" ELSE "locking",
                   attempt |-> s, code |-> code]]
    /\ job' = [job EXCEPT ![c] =
                 IF s \in Pasted THEN [at |-> "redeeming", attempt |-> s] ELSE @]
    /\ UNCHANGED <<row, rowLock, cred, file, token, bound, redeemed, late, poll,
                   revoke, health, brokerCrashes>>

\* Takes the row's lock and reads it: only a waiting attempt in time goes on.
RequireValidSession(c) ==
    LET s == call[c].attempt IN
    /\ call[c].at = "locking" /\ rowLock[s] = Nothing
    /\ IF row[s] # "waiting"
       THEN Ended(c) /\ UNCHANGED <<row, rowLock, job>>
       ELSE IF s \in late \/ ~call[c].code
       THEN /\ Ended(c)
            /\ row' = [row EXCEPT ![s] = "error"]
            /\ UNCHANGED <<rowLock, job>>
       ELSE /\ call' = [call EXCEPT ![c].at = "asking"]
            /\ rowLock' = [rowLock EXCEPT ![s] = c]
            /\ job' = [job EXCEPT ![c] = [at |-> "popping", attempt |-> s]]
            /\ UNCHANGED row
    /\ UNCHANGED <<cred, file, token, bound, redeemed, late, poll, revoke, health,
                   brokerCrashes>>

Unlocked(c) == [s \in Attempts |-> IF rowLock[s] = c THEN Nothing ELSE rowLock[s]]

\* What ads-api does with the broker's answer, in the transaction that has
\* held the row since RequireValidSession.
Admits(s) == s \in Pasted \/ s \notin late

CallbackCommits(c) ==
    LET s == call[c].attempt
        admitted == job[c].at = "found" /\ Admits(s) IN
    /\ call[c].at = "asking" /\ job[c].at \in {"found", "denied"}
    /\ row' = IF s \in Pasted THEN row
              ELSE [row EXCEPT ![s] = IF admitted THEN "ok" ELSE "error"]
    /\ cred' = [k \in Credentials |->
                  IF admitted /\ k \in CredentialsOf(s) THEN "connected" ELSE cred[k]]
    /\ rowLock' = Unlocked(c)
    /\ Ended(c)
    /\ job' = [job EXCEPT ![c] = NoRequestInHand]
    /\ UNCHANGED <<file, token, bound, redeemed, late, poll, revoke, health, brokerCrashes>>

\* The client gave up, the socket broke, or the database failed: the
\* transaction rolls back and the row is left to a fresh one.
CallbackFails(c) ==
    /\ call[c].at = "asking"
    /\ rowLock' = Unlocked(c)
    /\ call' = [call EXCEPT ![c] =
                  IF call[c].attempt \in Pasted THEN Unasked ELSE [@ EXCEPT !.at = "failed"]]
    /\ job' = [job EXCEPT ![c] =
                 IF @.at \in {"found", "denied"} THEN NoRequestInHand ELSE @]
    /\ UNCHANGED <<row, cred, file, token, bound, redeemed, late, poll, revoke,
                   health, brokerCrashes>>

RecordsFailure(c) ==
    LET s == call[c].attempt IN
    /\ call[c].at = "failed" /\ rowLock[s] = Nothing
    /\ row' = [row EXCEPT ![s] = IF @ = "waiting" THEN "error" ELSE @]
    /\ Ended(c)
    /\ UNCHANGED <<rowLock, cred, file, token, bound, redeemed, late, job, poll,
                   revoke, health, brokerCrashes>>

-----------------------------------------------------------------------------
(* The broker                                                              *)

\* Nobody waits any more for an answer to this request.
Abandoned(c) == call[c].at # "asking"

CallAnswered(c, at) ==
    job' = [job EXCEPT ![c] = IF Abandoned(c) THEN NoRequestInHand ELSE [@ EXCEPT !.at = at]]

\* Mutant: the file is read first and removed after the exchange.
PopSessionLater(c) ==
    LET s == job[c].attempt IN
    /\ job[c].at = "popping"
    /\ IF file[s] = "open" /\ s \notin late
       THEN job' = [job EXCEPT ![c].at = "redeeming"]
       ELSE CallAnswered(c, "denied")
    /\ UNCHANGED <<row, rowLock, cred, file, token, bound, redeemed, late, call, poll,
                   revoke, health, brokerCrashes>>

\* The rename that claims the file comes before the read: one claim, ever.
PopSession(c) ==
    LET s == job[c].attempt IN
    /\ job[c].at = "popping"
    /\ file' = [file EXCEPT ![s] = IF @ = "open" THEN "consumed" ELSE @]
    /\ IF file[s] = "open" /\ s \notin late
       THEN job' = [job EXCEPT ![c].at = "redeeming"]
       ELSE CallAnswered(c, "denied")
    /\ UNCHANGED <<row, rowLock, cred, token, bound, redeemed, late, call, poll,
                   revoke, health, brokerCrashes>>

\* The code goes to the provider, which also lists the accounts, or refuses.
Redeem(c) ==
    /\ job[c].at = "redeeming"
    /\ redeemed' = [redeemed EXCEPT ![job[c].attempt] = @ + 1]
    /\ \/ job' = [job EXCEPT ![c].at = "saving"]
       \/ CallAnswered(c, "denied")
    /\ UNCHANGED <<row, rowLock, cred, file, token, bound, late, call, poll, revoke,
                   health, brokerCrashes>>

\* One file for the credential, then one that binds the account to it.
SaveCredential(c, k) ==
    /\ job[c].at = "saving" /\ k \in CredentialsOf(job[c].attempt)
    /\ token[k] = "none"
    /\ \A other \in CredentialsOf(job[c].attempt) : token[other] # "none" => other \in bound
    /\ token' = [token EXCEPT ![k] = "live"]
    /\ UNCHANGED <<row, rowLock, cred, file, bound, redeemed, late, call, job, poll,
                   revoke, health, brokerCrashes>>

BindAccount(c, k) ==
    /\ job[c].at = "saving" /\ k \in CredentialsOf(job[c].attempt)
    /\ token[k] # "none" /\ k \notin bound
    /\ bound' = bound \cup {k}
    /\ UNCHANGED <<row, rowLock, cred, file, token, redeemed, late, call, job, poll,
                   revoke, health, brokerCrashes>>

\* Mutant: the answer is composed before the last account is bound.
AccountSavedPartly(s) == \E k \in CredentialsOf(s) : token[k] # "none"

\* The disk may refuse a file after the others were written.
AccountSaved(s) == CredentialsOf(s) \subseteq bound

AnswerComplete(c) ==
    /\ job[c].at = "saving"
    /\ \/ AccountSaved(job[c].attempt) /\ CallAnswered(c, "found")
       \/ ~AccountSaved(job[c].attempt) /\ CallAnswered(c, "denied")
    /\ UNCHANGED <<row, rowLock, cred, file, token, bound, redeemed, late, call, poll,
                   revoke, health, brokerCrashes>>

-----------------------------------------------------------------------------
(* The panel's poll, the owner's revocation, the health cycle              *)

PollReads(s) ==
    /\ poll = Nothing /\ row[s] = "waiting" /\ s \in late
    /\ poll' = s
    /\ UNCHANGED <<row, rowLock, cred, file, token, bound, redeemed, late, call, job,
                   revoke, health, brokerCrashes>>

\* Mutant: the column gets the name of the event.
CallGivenUpRaw(s) == "expired"

\* The row is read again under its lock before it is given up.
CallGivenUp(s) == IF row[s] = "waiting" THEN "error" ELSE row[s]

PollExpires ==
    /\ poll # Nothing /\ rowLock[poll] = Nothing
    /\ row' = [row EXCEPT ![poll] = CallGivenUp(poll)]
    /\ poll' = Nothing
    /\ UNCHANGED <<rowLock, cred, file, token, bound, redeemed, late, call, job,
                   revoke, health, brokerCrashes>>

RevocationReads(k) ==
    /\ revoke.at = "idle" /\ cred[k] # "none"
    /\ revoke' = [at |-> "asking", of |-> k, saw |-> cred[k]]
    /\ UNCHANGED <<row, rowLock, cred, file, token, bound, redeemed, late, call, job,
                   poll, health, brokerCrashes>>

BrokerRevokes ==
    /\ revoke.at = "asking"
    /\ token' = [token EXCEPT ![revoke.of] = IF @ = "none" THEN @ ELSE "revoked"]
    /\ revoke' = [revoke EXCEPT !.at = "told"]
    /\ UNCHANGED <<row, rowLock, cred, file, bound, redeemed, late, call, job, poll,
                   health, brokerCrashes>>

\* A credential read as revoked is refused and not written.
RevokeReady == revoke.at = "told"

RevokeCommits ==
    /\ RevokeReady
    /\ cred' = [cred EXCEPT ![revoke.of] = IF revoke.saw = "revoked" THEN @ ELSE "revoked"]
    /\ revoke' = NoRevoke
    /\ UNCHANGED <<row, rowLock, file, token, bound, redeemed, late, call, job, poll,
                   health, brokerCrashes>>

RevokeFails ==
    /\ revoke.at # "idle"
    /\ revoke' = NoRevoke
    /\ UNCHANGED <<row, rowLock, cred, file, token, bound, redeemed, late, call, job,
                   poll, health, brokerCrashes>>

HealthReads(k) ==
    /\ health.at = "idle" /\ cred[k] # "none"
    /\ health' = [at |-> "asking", of |-> k, saw |-> cred[k], probe |-> "none"]
    /\ UNCHANGED <<row, rowLock, cred, file, token, bound, redeemed, late, call, job,
                   poll, revoke, brokerCrashes>>

HealthProbes ==
    /\ health.at = "asking"
    /\ health' = [health EXCEPT
                    !.at = "told",
                    !.probe = IF token[health.of] = "live" THEN "connected" ELSE "revoked"]
    /\ UNCHANGED <<row, rowLock, cred, file, token, bound, redeemed, late, call, job,
                   poll, revoke, brokerCrashes>>

\* record_health_check keeps a revoked credential revoked: the one it read.
\* The save writes the whole row.
HealthSaves ==
    /\ health.at = "told"
    /\ cred' = [cred EXCEPT ![health.of] =
                  IF health.saw = "revoked" THEN "revoked" ELSE health.probe]
    /\ health' = NoHealth
    /\ UNCHANGED <<row, rowLock, file, token, bound, redeemed, late, call, job, poll,
                   revoke, brokerCrashes>>

HealthFails ==
    /\ health.at # "idle"
    /\ health' = NoHealth
    /\ UNCHANGED <<row, rowLock, cred, file, token, bound, redeemed, late, call, job,
                   poll, revoke, brokerCrashes>>

-----------------------------------------------------------------------------
(* Either process dies                                                     *)

\* The locks go with the connections; the broker works on for nobody.
ApiCrash ==
    /\ brokerCrashes < MaxBrokerCrashes
    /\ brokerCrashes' = brokerCrashes + 1
    /\ call' = [c \in Callbacks |-> Unasked]
    /\ job' = [c \in Callbacks |->
                 IF job[c].at \in {"found", "denied"} THEN NoRequestInHand ELSE job[c]]
    /\ rowLock' = [s \in Attempts |-> Nothing]
    /\ poll' = Nothing /\ revoke' = NoRevoke /\ health' = NoHealth
    /\ UNCHANGED <<row, cred, file, token, bound, redeemed, late>>

\* The files stay, and a claimed one stays claimed. Who was waiting is told
\* that the socket broke.
BrokerCrash ==
    /\ brokerCrashes < MaxBrokerCrashes
    /\ brokerCrashes' = brokerCrashes + 1
    /\ job' = [c \in Callbacks |->
                 IF job[c].at \in {"found", "denied"} THEN job[c] ELSE NoRequestInHand]
    /\ call' = [c \in Callbacks |->
                  IF call[c].at # "asking" \/ job[c].at \in {"found", "denied"} THEN call[c]
                  ELSE IF call[c].attempt \in Pasted THEN Unasked
                  ELSE [call[c] EXCEPT !.at = "failed"]]
    /\ rowLock' = [s \in Attempts |->
                     IF rowLock[s] # Nothing /\ job[rowLock[s]].at \notin {"found", "denied"}
                     THEN Nothing ELSE rowLock[s]]
    /\ UNCHANGED <<row, cred, file, token, bound, redeemed, late, poll, revoke, health>>

-----------------------------------------------------------------------------
CallbackStep(c) ==
    \/ RequireValidSession(c) \/ CallbackCommits(c) \/ CallbackFails(c)
    \/ RecordsFailure(c)

BrokerStep(c) ==
    \/ PopSession(c) \/ Redeem(c) \/ AnswerComplete(c)
    \/ \E k \in Credentials : SaveCredential(c, k) \/ BindAccount(c, k)

ConnectNext ==
    \/ \E s \in Attempts : BrokerBegins(s) \/ AttemptStarts(s) \/ TenMinutesPass(s)
    \/ \E c \in Callbacks, s \in Attempts, code \in BOOLEAN : CallbackArrives(c, s, code)
    \/ \E c \in Callbacks : CallbackStep(c) \/ BrokerStep(c)
    \/ \E s \in Attempts : PollReads(s)
    \/ PollExpires
    \/ \E k \in Credentials : RevocationReads(k) \/ HealthReads(k)
    \/ BrokerRevokes \/ RevokeCommits \/ RevokeFails
    \/ HealthProbes \/ HealthSaves \/ HealthFails
    \/ ApiCrash \/ BrokerCrash

ConnectSpec == ConnectInit /\ [][ConnectNext]_connectVars

\* ads-api's requests end by their timeouts; the broker works its requests
\* off; the panel keeps polling an attempt it started, and time passes.
ConnectFairSpec ==
    /\ ConnectSpec
    /\ \A c \in Callbacks : WF_connectVars(CallbackStep(c)) /\ WF_connectVars(BrokerStep(c))
    /\ \A s \in Attempts : WF_connectVars(TenMinutesPass(s)) /\ WF_connectVars(PollReads(s))
    /\ WF_connectVars(PollExpires)

-----------------------------------------------------------------------------
(* Properties                                                              *)

\* Every variable keeps its type: the row of an attempt knows three states.
ConnectTypeOK ==
    /\ row \in [Attempts -> {"none", "waiting", "ok", "error"}]
    /\ rowLock \in [Attempts -> Callbacks \cup {Nothing}]
    /\ cred \in [Credentials -> {"none", "connected", "revoked"}]
    /\ file \in [Attempts -> {"none", "open", "consumed"}]
    /\ token \in [Credentials -> {"none", "live", "revoked"}]
    /\ bound \subseteq Credentials /\ late \subseteq Attempts
    /\ redeemed \in [Attempts -> Nat]
    /\ call \in [Callbacks -> [at : {"idle", "locking", "asking", "failed"},
                              attempt : Attempts \cup {Nothing}, code : BOOLEAN]]
    /\ job \in [Callbacks -> [at : {"idle", "popping", "redeeming", "saving", "found", "denied"},
                             attempt : Attempts \cup {Nothing}]]
    /\ poll \in Attempts \cup {Nothing}
    /\ revoke \in [at : {"idle", "asking", "told"}, of : Credentials \cup {Nothing},
                   saw : {"none", "connected", "revoked"}]
    /\ health \in [at : {"idle", "asking", "told"}, of : Credentials \cup {Nothing},
                   saw : {"none", "connected", "revoked"},
                   probe : {"none", "connected", "revoked"}]
    /\ brokerCrashes \in 0..MaxBrokerCrashes

\* However often the provider's redirect comes, and whoever dies in between,
\* the code of an attempt goes to the provider at most once
\* (pop_connect_session claims the file before it reads it).
CodeRedeemedOnce == \A s \in Attempts : redeemed[s] <= 1

\* An attempt the panel shows as done has, in the other process's files, a
\* credential bound to every account found, and a row for each.
OkMeansConnected ==
    \A s \in Attempts : row[s] = "ok" =>
        \A k \in CredentialsOf(s) : k \in bound /\ token[k] # "none" /\ cred[k] # "none"

\* A credential the panel shows as revoked is one the broker can no longer
\* use: the broker forgets the token before ads-api says so.
RevokedIsUnusable == \A k \in Credentials : cred[k] = "revoked" => token[k] # "live"

\* The outcome of an attempt is final: neither a poll, nor a second callback,
\* nor the record of a failure overwrites it.
OutcomeIsFinal ==
    [][\A s \in Attempts : row[s] \in {"ok", "error"} => row'[s] = row[s]]_connectVars

\* An attempt does not wait for ever, whatever crashed: the poll expires it.
WaitingEnds == \A s \in Attempts : row[s] = "waiting" ~> row[s] # "waiting"

\* A code serves once, and what ads-api says of an attempt and of a credential
\* is what the broker can do with it.
ConnectionIsSound == CodeRedeemedOnce /\ OkMeansConnected /\ RevokedIsUnusable

\* "REVOKED" is terminal (platform_credential.py, revoke_platform_credential.py):
\* a credential comes back only as a new one. It does not hold: the health
\* check saves the row it read before the owner revoked.
RevokedIsTerminal ==
    [][\A k \in Credentials : cred[k] = "revoked" => cred'[k] = "revoked"]_connectVars
=============================================================================
