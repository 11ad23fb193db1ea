---------------------------- MODULE OwnerSession ----------------------------
(***************************************************************************)
(* The owner's sessions in the panel (iam/): every request reads the       *)
(* session and slides its expiry, a sensitive one also asks for a proof of *)
(* presence (a TOTP code per action, or an identification with Google per  *)
(* session) and for a one-shot confirmation of this very action.           *)
(*                                                                         *)
(* The requests are concurrent handlers, each step a transaction of its    *)
(* own.  Instants are the numbers of the identifications with Google, the  *)
(* only ones that are compared.                                            *)
(***************************************************************************)
EXTENDS Integers, FiniteSets

CONSTANTS
    Sessions, Handlers,
    Actions,            \* sensitive actions, one of them "revoke" a grant
    TotpCodes,          \* RFC 6238 time steps
    Nonces,             \* confirmations that may be issued
    Jumps,              \* round trips to Google (federated_login_transactions)
    Nil,
    MaxIdentifications  \* bound: answers of Google that are resolved

ASSUME SessionAssumption == MaxIdentifications \in Nat

Marks == 0..MaxIdentifications      \* last_federated_auth_at; 0: none, or pushed to the far past
Row   == [state : {"absent", "live", "revoked"}, expires : {"ahead", "passed", "absolute"},
          mark : Marks]

VARIABLES
    sessions,       \* rows of sessions
    totpRows,       \* rows of totp_reauth_confirmations: <<code, action>>
    recentRows,     \* those of the last five minutes
    confirmations,  \* tokens issued and their rows in owner_action_confirmations
    jumps,          \* rows of federated_login_transactions
    handlers,       \* the requests under way
    identified,     \* number of the last identification
    staleUpTo,      \* identifications older than five minutes
    spentMarks,     \* history: marks a revocation of a grant has invalidated
    passed,         \* history: <<code, action>> such that the code opened the action
    effects         \* history: effects carried out per confirmation

sessionVars == <<sessions, totpRows, recentRows, confirmations, jumps, handlers,
                 identified, staleUpTo, spentMarks, passed, effects>>
evidenceVars == <<totpRows, recentRows, passed>>
markVars     == <<identified, staleUpTo>>

Resting == [op |-> "none"]
NoToken == [state |-> "unissued"]

\* What a request has in hand, and what is kept of a confirmation.
HandlerState ==
    {Resting}
    \cup [op : {"logout"}, session : Sessions, held : Row]
    \cup [op : {"act"}, pc : {"touching", "presence", "confirming", "effect"}, session : Sessions,
          action : Actions, code : TotpCodes \cup {Nil}, token : Nonces \cup {Nil}, held : Row]
    \cup [op : {"callback"}, pc : {"exchanging", "resolving"}, session : Sessions \cup {Nil},
          at : Marks]
TokenState ==
    {NoToken} \cup [state : {"issued", "consumed", "expired"}, session : Sessions, action : Actions]

SessionInit ==
    /\ sessions = [s \in Sessions |-> [state |-> "absent", expires |-> "ahead", mark |-> 0]]
    /\ totpRows = {} /\ recentRows = {}
    /\ confirmations = [n \in Nonces |-> NoToken]
    /\ jumps = [j \in Jumps |-> [state |-> "absent", session |-> Nil]]
    /\ handlers = [h \in Handlers |-> Resting]
    /\ identified = 0 /\ staleUpTo = 0
    /\ spentMarks = {} /\ passed = {}
    /\ effects = [n \in Nonces |-> 0]

\* require_active.
Active(row) == row.state = "live" /\ row.expires = "ahead"

Becomes(h, next) == handlers' = [handlers EXCEPT ![h] = next]
Ends(h)          == Becomes(h, Resting)

-----------------------------------------------------------------------------
(* Entering, leaving, sliding the expiry. *)

\* Password or native SSO: no federated mark.
LogIn(s) ==
    /\ sessions[s].state = "absent"
    /\ sessions' = [sessions EXCEPT ![s].state = "live"]
    /\ UNCHANGED <<confirmations, jumps, handlers, spentMarks, effects, evidenceVars, markVars>>

\* Mutant: the row is written as it was read.
SavedRowBlind(row, held) ==
    [row EXCEPT !.expires = held.expires, !.state = held.state]

\* What UPDATE sessions makes of a row when it is given the one read earlier:
\* the expiry as computed then, COALESCE of the revocation, never the mark.
SavedRow(row, held) ==
    [row EXCEPT !.expires = held.expires,
                !.state = IF row.state = "revoked" THEN "revoked" ELSE held.state]


LogOutReads(h, s) ==
    /\ handlers[h] = Resting
    /\ sessions[s].state = "live"
    /\ Becomes(h, [op |-> "logout", session |-> s,
                   held |-> [sessions[s] EXCEPT !.state = "revoked"]])
    /\ UNCHANGED <<sessions, confirmations, jumps, spentMarks, effects, evidenceVars, markVars>>

LogOutSaves(h) ==
    /\ handlers[h].op = "logout"
    /\ sessions' = [sessions EXCEPT ![handlers[h].session] = SavedRow(@, handlers[h].held)]
    /\ Ends(h)
    /\ UNCHANGED <<confirmations, jumps, spentMarks, effects, evidenceVars, markVars>>

\* current_owner: any request, here the sensitive ones, with what they carry.
RequestArrives(h, s, action, code, token) ==
    /\ handlers[h] = Resting
    /\ Active(sessions[s])
    /\ token # Nil => confirmations[token].state # "unissued"
    /\ Becomes(h, [op |-> "act", pc |-> "touching", session |-> s, action |-> action,
                   code |-> code, token |-> token, held |-> sessions[s]])
    /\ UNCHANGED <<sessions, confirmations, jumps, spentMarks, effects, evidenceVars, markVars>>

\* The write is skipped when the expiry moved by less than a minute.
TouchSaves(h) ==
    /\ handlers[h].op = "act" /\ handlers[h].pc = "touching"
    /\ \/ sessions' = [sessions EXCEPT ![handlers[h].session] = SavedRow(@, handlers[h].held)]
       \/ UNCHANGED sessions
    /\ Becomes(h, [handlers[h] EXCEPT !.pc = "presence"])
    /\ UNCHANGED <<confirmations, jumps, spentMarks, effects, evidenceVars, markVars>>

-----------------------------------------------------------------------------
(* Presence (require_fresh_identification). *)

AsksPresence(h) == handlers[h].op = "act" /\ handlers[h].pc = "presence"
Present(h)      == Becomes(h, [handlers[h] EXCEPT !.pc = "confirming"])

\* A code is burned for the one action it came with, and committed at once.
BurnsCode(h) ==
    LET k == handlers[h].code
        a == handlers[h].action
    IN  /\ AsksPresence(h) /\ k # Nil
        /\ IF \E b \in Actions : <<k, b>> \in totpRows
           THEN Ends(h) /\ UNCHANGED evidenceVars
           ELSE /\ totpRows' = totpRows \cup {<<k, a>>}
                /\ recentRows' = recentRows \cup {<<k, a>>}
                /\ passed' = passed \cup {<<k, a>>}
                /\ Present(h)
        /\ UNCHANGED <<sessions, confirmations, jumps, spentMarks, effects, markVars>>

\* The evidence of TOTP for an action: its own rows of the last minutes.
TotpEvidence(action) == {row \in recentRows : row[2] = action}

HasFreshMark(row) == Active(row) /\ row.mark > staleUpTo

FindsPresence(h) ==
    LET a == handlers[h].action
    IN  /\ AsksPresence(h) /\ handlers[h].code = Nil
        /\ IF TotpEvidence(a) # {}
           THEN Present(h) /\ passed' = passed \cup {<<row[1], a>> : row \in TotpEvidence(a)}
           ELSE /\ IF HasFreshMark(sessions[handlers[h].session]) THEN Present(h) ELSE Ends(h)
                /\ UNCHANGED passed
        /\ UNCHANGED <<sessions, totpRows, recentRows, confirmations, jumps, spentMarks,
                       effects, markVars>>

-----------------------------------------------------------------------------
(* Confirmation (require_action_confirmation) and effect. *)

Confirming(h) == handlers[h].op = "act" /\ handlers[h].pc = "confirming"

\* 428: a token bound to the session and to the action.
IssuesConfirmation(h) ==
    /\ Confirming(h) /\ handlers[h].token = Nil
    /\ \/ /\ Active(sessions[handlers[h].session])
          /\ \E n \in Nonces :
               /\ confirmations[n] = NoToken
               /\ confirmations' = [confirmations EXCEPT ![n] =
                     [state |-> "issued", session |-> handlers[h].session,
                      action |-> handlers[h].action]]
       \/ UNCHANGED confirmations
    /\ Ends(h)
    /\ UNCHANGED <<sessions, jumps, spentMarks, effects, evidenceVars, markVars>>

\* Mutant: the burn is left to the transaction of the effect.
BurnedLater(token) == token

Burned(token) == [token EXCEPT !.state = "consumed"]

\* Under the lock of the session, and committed before the effect.
BurnsConfirmation(h) ==
    LET n == handlers[h].token
        s == handlers[h].session
    IN  /\ Confirming(h) /\ n # Nil
        /\ IF /\ Active(sessions[s])
              /\ confirmations[n].state = "issued"
              /\ confirmations[n].session = s /\ confirmations[n].action = handlers[h].action
           THEN /\ confirmations' = [confirmations EXCEPT ![n] = Burned(@)]
                /\ Becomes(h, [handlers[h] EXCEPT !.pc = "effect"])
           ELSE Ends(h) /\ UNCHANGED confirmations
        /\ UNCHANGED <<sessions, jumps, spentMarks, effects, evidenceVars, markVars>>

\* Revoking a grant invalidates the marks of all the owner's sessions (C-82).
EffectCommits(h) ==
    LET n == handlers[h].token
    IN  /\ handlers[h].op = "act" /\ handlers[h].pc = "effect"
        /\ effects' = [effects EXCEPT ![n] = @ + 1]
        /\ IF handlers[h].action = "revoke"
           THEN /\ sessions' = [s \in Sessions |-> [sessions[s] EXCEPT !.mark = 0]]
                /\ spentMarks' = spentMarks \cup ({sessions[s].mark : s \in Sessions} \ {0})
           ELSE UNCHANGED <<sessions, spentMarks>>
        /\ Ends(h)
        /\ UNCHANGED <<confirmations, jumps, evidenceVars, markVars>>

\* The effect fails, the client leaves, the process dies.
HandlerFails(h) ==
    /\ handlers[h] # Resting
    /\ Ends(h)
    /\ UNCHANGED <<sessions, confirmations, jumps, spentMarks, effects, evidenceVars, markVars>>

-----------------------------------------------------------------------------
(* Identification with Google. *)

\* With a live session the jump re-identifies it, without one it logs in.
StartJump(j, s) ==
    /\ jumps[j].state = "absent"
    /\ s # Nil => Active(sessions[s])
    /\ jumps' = [jumps EXCEPT ![j] = [state |-> "open", session |-> s]]
    /\ UNCHANGED <<sessions, confirmations, handlers, spentMarks, effects, evidenceVars, markVars>>

\* One UPDATE ... WHERE consumed_at IS NULL RETURNING, committed before the
\* code is exchanged.
ConsumeJump(h, j) ==
    /\ handlers[h] = Resting
    /\ jumps[j].state = "open"
    /\ jumps' = [jumps EXCEPT ![j].state = "consumed"]
    /\ Becomes(h, [op |-> "callback", pc |-> "exchanging", session |-> jumps[j].session, at |-> 0])
    /\ UNCHANGED <<sessions, confirmations, spentMarks, effects, evidenceVars, markVars>>

\* The claims are in, the clock is read, a transaction begins.
ResolveBegins(h) ==
    /\ handlers[h].op = "callback" /\ handlers[h].pc = "exchanging"
    /\ identified < MaxIdentifications
    /\ identified' = identified + 1
    /\ Becomes(h, [handlers[h] EXCEPT !.pc = "resolving", !.at = identified + 1])
    /\ UNCHANGED <<sessions, confirmations, jumps, staleUpTo, spentMarks, effects, evidenceVars>>

\* save_federated_mark on the session of the jump, or a new session.
ResolveCommits(h) ==
    LET at == handlers[h].at
        s  == handlers[h].session
    IN  /\ handlers[h].op = "callback" /\ handlers[h].pc = "resolving"
        /\ IF s = Nil
           THEN \E new \in Sessions :
                  /\ sessions[new].state = "absent"
                  /\ sessions' = [sessions EXCEPT ![new].state = "live", ![new].mark = at]
           ELSE sessions' = IF Active(sessions[s])
                            THEN [sessions EXCEPT ![s].mark = IF at > @ THEN at ELSE @]
                            ELSE sessions
        /\ Ends(h)
        /\ UNCHANGED <<confirmations, jumps, spentMarks, effects, evidenceVars, markVars>>

-----------------------------------------------------------------------------
(* Time: half an hour without requests, twelve hours, five minutes, two. *)

SessionExpires(s) ==
    /\ sessions[s].state # "absent"
    /\ \E e \in {"passed", "absolute"} :
         /\ sessions[s].expires = "ahead"
         /\ sessions' = [sessions EXCEPT ![s].expires = e]
    \* a request that read it before is still on its way for the idle limit only
    /\ sessions'[s].expires = "absolute" =>
         \A h \in Handlers : handlers[h] # Resting => handlers[h].session # s
    /\ UNCHANGED <<confirmations, jumps, handlers, spentMarks, effects, evidenceVars, markVars>>

PresenceLapses ==
    /\ staleUpTo < identified \/ recentRows # {}
    /\ staleUpTo' = identified /\ recentRows' = {}
    /\ UNCHANGED <<sessions, totpRows, confirmations, jumps, handlers, identified, spentMarks,
                   passed, effects>>

ConfirmationExpires(n) ==
    /\ confirmations[n].state = "issued"
    /\ confirmations' = [confirmations EXCEPT ![n].state = "expired"]
    /\ UNCHANGED <<sessions, jumps, handlers, spentMarks, effects, evidenceVars, markVars>>

SessionNext ==
    \/ PresenceLapses
    \/ \E s \in Sessions : LogIn(s) \/ SessionExpires(s)
    \/ \E n \in Nonces : ConfirmationExpires(n)
    \/ \E j \in Jumps, s \in Sessions \cup {Nil} : StartJump(j, s)
    \/ \E h \in Handlers :
          \/ \E s \in Sessions : LogOutReads(h, s)
          \/ LogOutSaves(h)
          \/ \E s \in Sessions, a \in Actions, k \in TotpCodes \cup {Nil},
                n \in Nonces \cup {Nil} : RequestArrives(h, s, a, k, n)
          \/ TouchSaves(h)
          \/ BurnsCode(h)
          \/ FindsPresence(h)
          \/ IssuesConfirmation(h)
          \/ BurnsConfirmation(h)
          \/ EffectCommits(h)
          \/ HandlerFails(h)
          \/ \E j \in Jumps : ConsumeJump(h, j)
          \/ ResolveBegins(h)
          \/ ResolveCommits(h)

SessionSpec == SessionInit /\ [][SessionNext]_sessionVars

-----------------------------------------------------------------------------
(* Properties. *)

\* Every variable keeps its type; a window of evidence only holds rows written.
SessionTypeOK ==
    /\ sessions \in [Sessions -> Row]
    /\ recentRows \subseteq totpRows /\ totpRows \subseteq TotpCodes \X Actions
    /\ confirmations \in [Nonces -> TokenState]
    /\ jumps \in [Jumps -> [state : {"absent", "open", "consumed"}, session : Sessions \cup {Nil}]]
    /\ handlers \in [Handlers -> HandlerState]
    /\ identified \in Marks /\ staleUpTo \in Marks
    /\ effects \in [Nonces -> Nat]

\* A session that has been logged out is never live again, although every
\* request under way writes back a row it read before (COALESCE in save).
LoggedOutStaysOut ==
    [][\A s \in Sessions : sessions[s].state = "revoked" => sessions'[s].state = "revoked"]_sessionVars

\* The presence that authorized a revocation does not survive it: no request
\* that had read the session before brings the invalidated mark back (C-82).
SpentPresenceStaysSpent == \A s \in Sessions : sessions[s].mark \notin spentMarks

\* A confirmation carries out one effect at most, whether the effect fails,
\* the client repeats the request or two copies of it run together.
ConfirmedOnce == \A n \in Nonces : effects[n] <= 1

\* A code that confirmed one action never opens another one (C-81, 0020).
CodeServesOneAction ==
    \A k \in TotpCodes : Cardinality({a \in Actions : <<k, a>> \in passed}) <= 1

\* One confirmation, one action, once; and the presence behind it is spent with
\* the action it authorized.
ConfirmationServesOnce == SpentPresenceStaysSpent /\ ConfirmedOnce /\ CodeServesOneAction
=============================================================================
