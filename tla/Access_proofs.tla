--------------------------- MODULE Access_proofs ----------------------------
(***************************************************************************)
(* The theorems of OwnerSession, McpOAuth, CapsStore and PlatformConnect,  *)
(* through which authority enters the system: for any sessions, codes,     *)
(* requests and transactions, any accounts, caps, attempts and callbacks,  *)
(* and any crashes. They share no variable; each has its types, its        *)
(* inductive invariants, one step at a time, and its theorems. Last, the   *)
(* types of all four together.                                             *)
(***************************************************************************)
EXTENDS MCAccess, FiniteSetTheorems, TLAPS

-----------------------------------------------------------------------------
(* OwnerSession: types. *)

\* A request in hand is of one of three kinds, with what it carries.
LEMMA HandlerKinds ==
    ASSUME SessionTypeOK, NEW h \in Handlers
    PROVE  /\ handlers[h].op = "logout" =>
                  handlers[h] \in [op : {"logout"}, session : Sessions, held : Row]
           /\ handlers[h].op = "act" =>
                  handlers[h] \in
                      [op : {"act"}, pc : {"touching", "presence", "confirming", "effect"},
                       session : Sessions, action : Actions, code : TotpCodes \cup {Nil},
                       token : Nonces \cup {Nil}, held : Row]
           /\ handlers[h].op = "callback" =>
                  handlers[h] \in
                      [op : {"callback"}, pc : {"exchanging", "resolving"},
                       session : Sessions \cup {Nil}, at : Marks]
<1>1. handlers[h] \in HandlerState
  BY DEF SessionTypeOK
<1> QED
  BY <1>1 DEF HandlerState, Resting

\* One request moves, to a state that is one: nobody else does.
LEMMA HandlerBecomes ==
    ASSUME SessionTypeOK, NEW h \in Handlers, NEW next \in HandlerState, Becomes(h, next)
    PROVE  /\ handlers' \in [Handlers -> HandlerState]
           /\ handlers'[h] = next
           /\ \A g \in Handlers \ {h} : handlers'[g] = handlers[g]
BY DEF SessionTypeOK, Becomes

\* One that ends is at rest, with nothing in hand.
LEMMA HandlerEnds ==
    ASSUME SessionTypeOK, NEW h \in Handlers, Ends(h)
    PROVE  /\ handlers' \in [Handlers -> HandlerState]
           /\ handlers'[h].op = "none"
           /\ \A g \in Handlers \ {h} : handlers'[g] = handlers[g]
<1>1. Resting \in HandlerState
  BY DEF HandlerState
<1> QED
  BY <1>1, HandlerBecomes DEF Ends, Resting

\* An action that goes on only changes its step.
LEMMA ActGoesOn ==
    ASSUME SessionTypeOK, NEW h \in Handlers, handlers[h].op = "act",
           NEW pc \in {"touching", "presence", "confirming", "effect"},
           Becomes(h, [handlers[h] EXCEPT !.pc = pc])
    PROVE  /\ handlers' \in [Handlers -> HandlerState]
           /\ handlers'[h].op = "act" /\ handlers'[h].pc = pc
           /\ handlers'[h].token = handlers[h].token
           /\ \A g \in Handlers \ {h} : handlers'[g] = handlers[g]
<1>1. handlers[h] \in [op : {"act"}, pc : {"touching", "presence", "confirming", "effect"},
                       session : Sessions, action : Actions, code : TotpCodes \cup {Nil},
                       token : Nonces \cup {Nil}, held : Row]
  BY HandlerKinds
<1> DEFINE next == [handlers[h] EXCEPT !.pc = pc]
<1>2. next \in [op : {"act"}, pc : {"touching", "presence", "confirming", "effect"},
                session : Sessions, action : Actions, code : TotpCodes \cup {Nil},
                token : Nonces \cup {Nil}, held : Row]
      /\ next.op = "act" /\ next.pc = pc /\ next.token = handlers[h].token
  BY <1>1
<1>3. next \in HandlerState
  BY <1>2 DEF HandlerState
<1> HIDE DEF next
<1>4. Becomes(h, next)
  BY DEF next
<1> QED
  BY <1>2, <1>3, <1>4, HandlerBecomes

\* What UPDATE sessions makes of two rows is a row, with the mark of the first.
LEMMA SavedRowType ==
    ASSUME NEW mine \in Row, NEW held \in Row
    PROVE  SavedRow(mine, held) \in Row /\ SavedRow(mine, held).mark = mine.mark
           /\ (mine.state = "revoked" => SavedRow(mine, held).state = "revoked")
BY DEF SavedRow, Row

\* Every variable of the sessions is well typed at first,
LEMMA SessionInitTypeOK == SessionInit => SessionTypeOK
BY SessionAssumption
   DEF SessionInit, SessionTypeOK, Row, Marks, TokenState, HandlerState, Resting, NoToken

\* and stays so, whichever request or clock moves.
LEMMA SessionNextTypeOK == SessionTypeOK /\ [SessionNext]_sessionVars => SessionTypeOK'
<1> SUFFICES ASSUME SessionTypeOK, [SessionNext]_sessionVars
             PROVE  SessionTypeOK'
  OBVIOUS
<1> USE SessionAssumption
<1>1. CASE PresenceLapses \/ UNCHANGED sessionVars
  BY <1>1 DEF SessionTypeOK, PresenceLapses, sessionVars, Marks
<1>2. ASSUME NEW s \in Sessions, LogIn(s) \/ SessionExpires(s)
      PROVE  SessionTypeOK'
  BY <1>2 DEF SessionTypeOK, LogIn, SessionExpires, Row, evidenceVars, markVars
<1>3. ASSUME NEW n \in Nonces, ConfirmationExpires(n)
      PROVE  SessionTypeOK'
  <2>1. confirmations[n] \in [state : {"issued", "consumed", "expired"}, session : Sessions,
                              action : Actions]
    BY <1>3 DEF SessionTypeOK, ConfirmationExpires, TokenState, NoToken
  <2>2. [confirmations[n] EXCEPT !.state = "expired"] \in TokenState
    BY <2>1 DEF TokenState
  <2> QED
    BY <1>3, <2>2 DEF SessionTypeOK, ConfirmationExpires, evidenceVars, markVars
<1>4. ASSUME NEW j \in Jumps, NEW s \in Sessions \cup {Nil}, StartJump(j, s)
      PROVE  SessionTypeOK'
  BY <1>4 DEF SessionTypeOK, StartJump, evidenceVars, markVars
<1>5. ASSUME NEW h \in Handlers, NEW s \in Sessions, LogOutReads(h, s)
      PROVE  SessionTypeOK'
  <2>1. [op |-> "logout", session |-> s, held |-> [sessions[s] EXCEPT !.state = "revoked"]]
            \in HandlerState
    BY DEF SessionTypeOK, HandlerState, Row
  <2> QED
    BY <1>5, <2>1, HandlerBecomes DEF SessionTypeOK, LogOutReads, evidenceVars, markVars
<1>6. ASSUME NEW h \in Handlers, LogOutSaves(h)
      PROVE  SessionTypeOK'
  <2>1. handlers[h].session \in Sessions /\ handlers[h].held \in Row
    BY <1>6, HandlerKinds DEF LogOutSaves
  <2>2. sessions' \in [Sessions -> Row]
    BY <1>6, <2>1, SavedRowType DEF SessionTypeOK, LogOutSaves
  <2> QED
    BY <1>6, <2>2, HandlerEnds DEF SessionTypeOK, LogOutSaves, evidenceVars, markVars
<1>7. ASSUME NEW h \in Handlers, NEW s \in Sessions, NEW a \in Actions,
             NEW k \in TotpCodes \cup {Nil}, NEW n \in Nonces \cup {Nil},
             RequestArrives(h, s, a, k, n)
      PROVE  SessionTypeOK'
  <2>1. [op |-> "act", pc |-> "touching", session |-> s, action |-> a, code |-> k,
         token |-> n, held |-> sessions[s]] \in HandlerState
    BY DEF SessionTypeOK, HandlerState
  <2> QED
    BY <1>7, <2>1, HandlerBecomes DEF SessionTypeOK, RequestArrives, evidenceVars, markVars
<1>8. ASSUME NEW h \in Handlers, TouchSaves(h)
      PROVE  SessionTypeOK'
  <2>1. handlers[h].session \in Sessions /\ handlers[h].held \in Row
    BY <1>8, HandlerKinds DEF TouchSaves
  <2>2. sessions' \in [Sessions -> Row]
    BY <1>8, <2>1, SavedRowType DEF SessionTypeOK, TouchSaves
  <2> QED
    BY <1>8, <2>2, ActGoesOn DEF SessionTypeOK, TouchSaves, evidenceVars, markVars
<1>9. ASSUME NEW h \in Handlers, BurnsCode(h) \/ FindsPresence(h)
      PROVE  SessionTypeOK'
  <2>1. handlers[h].op = "act" /\ handlers[h].pc = "presence" /\ (Present(h) \/ Ends(h))
    BY <1>9 DEF BurnsCode, FindsPresence, AsksPresence
  <2>2. handlers' \in [Handlers -> HandlerState]
    BY <2>1, ActGoesOn, HandlerEnds DEF Present
  <2>3. recentRows' \subseteq totpRows' /\ totpRows' \subseteq TotpCodes \X Actions
    <3>1. handlers[h].action \in Actions /\ handlers[h].code \in TotpCodes \cup {Nil}
      BY <2>1, HandlerKinds
    <3> QED
      BY <1>9, <3>1 DEF SessionTypeOK, BurnsCode, FindsPresence, evidenceVars
  <2> QED
    BY <1>9, <2>2, <2>3 DEF SessionTypeOK, BurnsCode, FindsPresence, markVars
<1>10. ASSUME NEW h \in Handlers, IssuesConfirmation(h)
       PROVE  SessionTypeOK'
  <2>1. handlers[h].session \in Sessions /\ handlers[h].action \in Actions
    BY <1>10, HandlerKinds DEF IssuesConfirmation, Confirming
  <2>2. confirmations' \in [Nonces -> TokenState]
    BY <1>10, <2>1 DEF SessionTypeOK, IssuesConfirmation, TokenState
  <2> QED
    BY <1>10, <2>2, HandlerEnds DEF SessionTypeOK, IssuesConfirmation, evidenceVars, markVars
<1>11. ASSUME NEW h \in Handlers, BurnsConfirmation(h)
       PROVE  SessionTypeOK'
  <2>1. handlers[h].op = "act" /\ handlers[h].token \in Nonces
    BY <1>11, HandlerKinds DEF BurnsConfirmation, Confirming
  <2>2. CASE Ends(h) /\ UNCHANGED confirmations
    BY <1>11, <2>2, HandlerEnds DEF SessionTypeOK, BurnsConfirmation, evidenceVars, markVars
  <2>3. CASE /\ confirmations[handlers[h].token].state = "issued"
             /\ confirmations' = [confirmations EXCEPT ![handlers[h].token] = Burned(@)]
             /\ Becomes(h, [handlers[h] EXCEPT !.pc = "effect"])
    <3>1. confirmations[handlers[h].token] \in
              [state : {"issued", "consumed", "expired"}, session : Sessions, action : Actions]
      BY <2>1, <2>3 DEF SessionTypeOK, TokenState, NoToken
    <3>2. Burned(confirmations[handlers[h].token]) \in TokenState
      BY <3>1 DEF Burned, TokenState
    <3>3. confirmations' \in [Nonces -> TokenState] /\ handlers' \in [Handlers -> HandlerState]
      BY <2>1, <2>3, <3>2, ActGoesOn DEF SessionTypeOK
    <3> QED
      BY <1>11, <3>3 DEF SessionTypeOK, BurnsConfirmation, evidenceVars, markVars
  <2> QED
    BY <1>11, <2>2, <2>3 DEF BurnsConfirmation
<1>12. ASSUME NEW h \in Handlers, EffectCommits(h)
       PROVE  SessionTypeOK'
  <2>1. [s \in Sessions |-> [sessions[s] EXCEPT !.mark = 0]] \in [Sessions -> Row]
    BY DEF SessionTypeOK, Row, Marks
  <2>2. sessions' \in [Sessions -> Row]
    <3>1. \/ sessions' = [s \in Sessions |-> [sessions[s] EXCEPT !.mark = 0]]
          \/ sessions' = sessions
      BY <1>12 DEF EffectCommits
    <3> QED
      BY <2>1, <3>1 DEF SessionTypeOK
  <2>3. effects' \in [Nonces -> Nat]
    <3>1. effects' = [effects EXCEPT ![handlers[h].token] = effects[handlers[h].token] + 1]
      BY <1>12 DEF EffectCommits
    <3>2. effects \in [Nonces -> Nat]
      BY DEF SessionTypeOK
    <3>3. \A n \in Nonces : effects[n] + 1 \in Nat
      BY <3>2
    <3> QED
      BY <3>1, <3>2, <3>3
  <2> QED
    BY <1>12, <2>2, <2>3, HandlerEnds DEF SessionTypeOK, EffectCommits, evidenceVars, markVars
<1>13. ASSUME NEW h \in Handlers, HandlerFails(h)
       PROVE  SessionTypeOK'
  BY <1>13, HandlerEnds DEF SessionTypeOK, HandlerFails, evidenceVars, markVars
<1>14. ASSUME NEW h \in Handlers, NEW j \in Jumps, ConsumeJump(h, j)
       PROVE  SessionTypeOK'
  <2>1. [op |-> "callback", pc |-> "exchanging", session |-> jumps[j].session, at |-> 0]
            \in HandlerState
    BY DEF SessionTypeOK, HandlerState, Marks
  <2> QED
    BY <1>14, <2>1, HandlerBecomes DEF SessionTypeOK, ConsumeJump, evidenceVars, markVars
<1>15. ASSUME NEW h \in Handlers, ResolveBegins(h)
       PROVE  SessionTypeOK'
  <2>1. handlers[h] \in [op : {"callback"}, pc : {"exchanging", "resolving"},
                         session : Sessions \cup {Nil}, at : Marks]
    BY <1>15, HandlerKinds DEF ResolveBegins
  <2>2. identified + 1 \in Marks
    BY <1>15 DEF ResolveBegins, SessionTypeOK, Marks
  <2>3. [handlers[h] EXCEPT !.pc = "resolving", !.at = identified + 1] \in HandlerState
    BY <2>1, <2>2 DEF HandlerState
  <2> QED
    BY <1>15, <2>2, <2>3, HandlerBecomes DEF SessionTypeOK, ResolveBegins, evidenceVars
<1>16. ASSUME NEW h \in Handlers, ResolveCommits(h)
       PROVE  SessionTypeOK'
  <2>1. handlers[h].at \in Marks /\ handlers[h].session \in Sessions \cup {Nil}
    BY <1>16, HandlerKinds DEF ResolveCommits
  <2>2. CASE handlers[h].session = Nil
    <3>1. PICK new \in Sessions :
              sessions' = [sessions EXCEPT ![new].state = "live", ![new].mark = handlers[h].at]
      BY <1>16, <2>2 DEF ResolveCommits
    <3>2. sessions' = [sessions EXCEPT ![new] =
                          [sessions[new] EXCEPT !.state = "live", !.mark = handlers[h].at]]
      BY <3>1 DEF SessionTypeOK
    <3>3. [sessions[new] EXCEPT !.state = "live", !.mark = handlers[h].at] \in Row
      BY <2>1 DEF SessionTypeOK, Row
    <3>4. sessions' \in [Sessions -> Row]
      BY <3>2, <3>3 DEF SessionTypeOK
    <3> QED
      BY <1>16, <3>4, HandlerEnds DEF SessionTypeOK, ResolveCommits, evidenceVars, markVars
  <2>3. CASE handlers[h].session # Nil
    <3>1. sessions' \in [Sessions -> Row]
      BY <1>16, <2>1, <2>3 DEF SessionTypeOK, ResolveCommits, Row
    <3> QED
      BY <1>16, <3>1, HandlerEnds DEF SessionTypeOK, ResolveCommits, evidenceVars, markVars
  <2> QED
    BY <2>2, <2>3
<1> QED
  BY <1>1, <1>2, <1>3, <1>4, <1>5, <1>6, <1>7, <1>8, <1>9, <1>10, <1>11, <1>12, <1>13,
     <1>14, <1>15, <1>16 DEF SessionNext

\* Every variable of the sessions keeps its type.
THEOREM SessionTypes == SessionSpec => []SessionTypeOK
BY SessionInitTypeOK, SessionNextTypeOK, PTL DEF SessionSpec

-----------------------------------------------------------------------------
(* OwnerSession: what serves once.                                         *)

\* A session that has been logged out is never live again, although every
\* request under way writes back a row it read before (COALESCE in save).
THEOREM SessionStaysOut == SessionSpec => LoggedOutStaysOut
<1>1. ASSUME SessionTypeOK, SessionNext
      PROVE  \A s \in Sessions : sessions[s].state = "revoked" => sessions'[s].state = "revoked"
  <2>1. CASE UNCHANGED sessions
    BY <2>1
  <2>2. ASSUME NEW s \in Sessions, LogIn(s) \/ SessionExpires(s)
        PROVE  \A t \in Sessions : sessions[t].state = "revoked" => sessions'[t].state = "revoked"
    BY <1>1, <2>2 DEF SessionTypeOK, Row, LogIn, SessionExpires
  <2>3. ASSUME NEW h \in Handlers, LogOutSaves(h) \/ TouchSaves(h)
        PROVE  \A t \in Sessions : sessions[t].state = "revoked" => sessions'[t].state = "revoked"
    <3>1. handlers[h].session \in Sessions /\ handlers[h].held \in Row
      BY <1>1, <2>3, HandlerKinds DEF LogOutSaves, TouchSaves
    <3>2. \/ sessions' = [sessions EXCEPT ![handlers[h].session] = SavedRow(@, handlers[h].held)]
          \/ UNCHANGED sessions
      BY <2>3 DEF LogOutSaves, TouchSaves
    <3> QED
      BY <1>1, <3>1, <3>2, SavedRowType DEF SessionTypeOK
  <2>4. ASSUME NEW h \in Handlers, EffectCommits(h)
        PROVE  \A t \in Sessions : sessions[t].state = "revoked" => sessions'[t].state = "revoked"
    BY <1>1, <2>4 DEF SessionTypeOK, Row, EffectCommits
  <2>5. ASSUME NEW h \in Handlers, ResolveCommits(h)
        PROVE  \A t \in Sessions : sessions[t].state = "revoked" => sessions'[t].state = "revoked"
    <3>1. handlers[h].session \in Sessions \cup {Nil}
      BY <1>1, <2>5, HandlerKinds DEF ResolveCommits
    <3>2. CASE handlers[h].session = Nil
      <4>1. PICK new \in Sessions :
                /\ sessions[new].state = "absent"
                /\ sessions' = [sessions EXCEPT ![new].state = "live", ![new].mark = handlers[h].at]
        BY <2>5, <3>2 DEF ResolveCommits
      <4>2. \A t \in Sessions : t # new => sessions'[t] = sessions[t]
        BY <1>1, <4>1 DEF SessionTypeOK
      <4> QED
        BY <4>1, <4>2
    <3>3. CASE handlers[h].session # Nil
      BY <1>1, <2>5, <3>1, <3>3 DEF SessionTypeOK, Row, ResolveCommits
    <3> QED
      BY <3>2, <3>3
  <2> QED
    BY <1>1, <2>1, <2>2, <2>3, <2>4, <2>5
       DEF SessionNext, PresenceLapses, ConfirmationExpires, StartJump, LogOutReads,
           RequestArrives, BurnsCode, FindsPresence, IssuesConfirmation, BurnsConfirmation,
           HandlerFails, ConsumeJump, ResolveBegins
<1> QED
  BY <1>1, SessionInitTypeOK, SessionNextTypeOK, PTL DEF SessionSpec, LoggedOutStaysOut

\* A code opens only the action it was burned for, and is burned for one.
CodesInv ==
    /\ passed \subseteq totpRows
    /\ \A r, q \in totpRows : r[1] = q[1] => r = q

\* Presence found later comes from the rows of the very action.
LEMMA NextCodesInv == SessionTypeOK /\ CodesInv /\ [SessionNext]_sessionVars => CodesInv'
<1> SUFFICES ASSUME SessionTypeOK, CodesInv, [SessionNext]_sessionVars
             PROVE  CodesInv'
  OBVIOUS
<1>1. CASE UNCHANGED <<totpRows, passed>>
  BY <1>1 DEF CodesInv
<1>2. ASSUME NEW h \in Handlers, BurnsCode(h)
      PROVE  CodesInv'
  <2> DEFINE k == handlers[h].code
             a == handlers[h].action
  <2>1. CASE totpRows' = totpRows \cup {<<k, a>>} /\ passed' = passed \cup {<<k, a>>}
             /\ ~ \E b \in Actions : <<k, b>> \in totpRows
    <3>1. \A r \in totpRows : r = <<r[1], r[2]>> /\ r[2] \in Actions
      BY DEF SessionTypeOK
    <3>2. \A r \in totpRows : r[1] # k
      BY <2>1, <3>1
    <3> HIDE DEF k, a
    <3>3. <<k, a>>[1] = k
      OBVIOUS
    <3> QED
      BY <2>1, <3>2, <3>3 DEF CodesInv
  <2> QED
    BY <1>1, <1>2, <2>1 DEF BurnsCode, evidenceVars
<1>3. ASSUME NEW h \in Handlers, FindsPresence(h)
      PROVE  CodesInv'
  <2> DEFINE a == handlers[h].action
  <2>1. \A used \in TotpEvidence(a) : <<used[1], a>> = used /\ used \in totpRows
    BY DEF TotpEvidence, SessionTypeOK
  <2>2. {<<used[1], a>> : used \in TotpEvidence(a)} \subseteq totpRows
    BY <2>1
  <2> HIDE DEF a
  <2>3. UNCHANGED totpRows
        /\ (passed' = passed \/ passed' = passed \cup {<<used[1], a>> : used \in TotpEvidence(a)})
    BY <1>3 DEF FindsPresence, a
  <2> QED
    BY <2>2, <2>3 DEF CodesInv
<1> QED
  BY <1>1, <1>2, <1>3
     DEF SessionNext, sessionVars, evidenceVars, PresenceLapses, LogIn, SessionExpires,
         ConfirmationExpires, StartJump, LogOutReads, LogOutSaves, RequestArrives, TouchSaves,
         IssuesConfirmation, BurnsConfirmation, EffectCommits, HandlerFails, ConsumeJump,
         ResolveBegins, ResolveCommits

\* A request about to carry out its effect, and one about to leave its mark.
Effecting(h) == handlers[h].op = "act" /\ handlers[h].pc = "effect"
Resolving(h) == handlers[h].op = "callback" /\ handlers[h].pc = "resolving"

\* An effect has a confirmation of its own, burned before it and not used yet.
BurnInv ==
    /\ \A n \in Nonces :
           effects[n] = 0 \/ (effects[n] = 1 /\ confirmations[n].state = "consumed")
    /\ \A h \in Handlers : Effecting(h) =>
           /\ handlers[h].token \in Nonces
           /\ confirmations[handlers[h].token].state = "consumed"
           /\ effects[handlers[h].token] = 0
    /\ \A g, h \in Handlers :
           Effecting(g) /\ Effecting(h) /\ handlers[g].token = handlers[h].token => g = h

\* An identification under way brings a mark that no session has, no other
\* identification brings and no revocation has spent.
MarksInv ==
    /\ spentMarks \subseteq 1 .. identified
    /\ \A s \in Sessions : sessions[s].mark <= identified /\ sessions[s].mark \notin spentMarks
    /\ \A h \in Handlers : Resolving(h) =>
           /\ handlers[h].at \in 1 .. identified /\ handlers[h].at \notin spentMarks
           /\ \A s \in Sessions : sessions[s].mark # handlers[h].at
           /\ \A g \in Handlers \ {h} : Resolving(g) => handlers[g].at # handlers[h].at

\* Neither is disturbed while nobody comes to an effect or to a mark, the
\* burned stays burned, and the marks stay.
LEMMA SameBurns ==
    ASSUME BurnInv, UNCHANGED effects,
           \A n \in Nonces : confirmations[n].state = "consumed" => confirmations'[n].state = "consumed",
           \A h \in Handlers : Effecting(h)' => Effecting(h) /\ handlers'[h] = handlers[h]
    PROVE  BurnInv'
BY DEF BurnInv, Effecting

\* The presences behind the revocations are as before when nobody turns to
\* resolve a confirmation and no mark or identification is touched.
LEMMA SameMarks ==
    ASSUME MarksInv, UNCHANGED <<spentMarks, identified>>,
           \A s \in Sessions : sessions'[s].mark = sessions[s].mark,
           \A h \in Handlers : Resolving(h)' => Resolving(h) /\ handlers'[h] = handlers[h]
    PROVE  MarksInv'
BY DEF MarksInv, Resolving

\* A request that neither comes to an effect nor to a mark.
LEMMA PlainHandler ==
    ASSUME NEW h \in Handlers, \A g \in Handlers \ {h} : handlers'[g] = handlers[g],
           ~Effecting(h)', ~Resolving(h)'
    PROVE  \A g \in Handlers : /\ Effecting(g)' => Effecting(g) /\ handlers'[g] = handlers[g]
                               /\ Resolving(g)' => Resolving(g) /\ handlers'[g] = handlers[g]
BY DEF Effecting, Resolving

\* Burned under the lock of the session and committed before the effect; the
\* mark of an identification is its own number, and a revocation spends those
\* that are there.
LEMMA NextOnceInv ==
    ASSUME SessionTypeOK, BurnInv, MarksInv, [SessionNext]_sessionVars
    PROVE  BurnInv' /\ MarksInv'
<1>1. CASE UNCHANGED <<handlers, effects, confirmations, sessions, spentMarks, identified>>
  BY <1>1, SameBurns, SameMarks DEF Effecting, Resolving
<1>2. ASSUME NEW s \in Sessions, LogIn(s) \/ SessionExpires(s)
      PROVE  BurnInv' /\ MarksInv'
  <2>1. \A t \in Sessions : sessions'[t].mark = sessions[t].mark
    BY <1>2 DEF LogIn, SessionExpires, SessionTypeOK, Row
  <2> QED
    BY <1>2, <2>1, SameBurns, SameMarks
       DEF LogIn, SessionExpires, Effecting, Resolving, markVars
<1>3. ASSUME NEW n \in Nonces, ConfirmationExpires(n)
      PROVE  BurnInv' /\ MarksInv'
  <2>1. \A m \in Nonces : confirmations[m].state = "consumed" => confirmations'[m] = confirmations[m]
    BY <1>3 DEF ConfirmationExpires, SessionTypeOK
  <2> QED
    BY <1>3, <2>1, SameBurns, SameMarks DEF ConfirmationExpires, Effecting, Resolving, markVars
\* The steps of a request on its way to something else.
<1>4. ASSUME NEW h \in Handlers,
             \/ \E s \in Sessions : LogOutReads(h, s)
             \/ \E s \in Sessions, a \in Actions, k \in TotpCodes \cup {Nil},
                   n \in Nonces \cup {Nil} : RequestArrives(h, s, a, k, n)
             \/ \E j \in Jumps : ConsumeJump(h, j)
      PROVE  BurnInv' /\ MarksInv'
  <2>1. /\ \A g \in Handlers \ {h} : handlers'[g] = handlers[g]
        /\ handlers'[h].op = "logout"
           \/ (handlers'[h].op = "act" /\ handlers'[h].pc = "touching")
           \/ (handlers'[h].op = "callback" /\ handlers'[h].pc = "exchanging")
    BY <1>4 DEF LogOutReads, RequestArrives, ConsumeJump, Becomes, SessionTypeOK
  <2>2. ~Effecting(h)' /\ ~Resolving(h)'
    BY <2>1 DEF Effecting, Resolving
  <2> QED
    BY <1>4, <2>1, <2>2, PlainHandler, SameBurns, SameMarks
       DEF LogOutReads, RequestArrives, ConsumeJump, markVars
<1>5. ASSUME NEW h \in Handlers, LogOutSaves(h) \/ TouchSaves(h)
      PROVE  BurnInv' /\ MarksInv'
  <2>1. handlers[h].session \in Sessions /\ handlers[h].held \in Row
    BY <1>5, HandlerKinds DEF LogOutSaves, TouchSaves
  <2>2. \A t \in Sessions : sessions'[t].mark = sessions[t].mark
    BY <1>5, <2>1, SavedRowType DEF LogOutSaves, TouchSaves, SessionTypeOK
  <2>3. /\ \A g \in Handlers \ {h} : handlers'[g] = handlers[g]
        /\ handlers'[h].op = "none" \/ (handlers'[h].op = "act" /\ handlers'[h].pc = "presence")
    BY <1>5, HandlerEnds, ActGoesOn DEF LogOutSaves, TouchSaves
  <2>4. ~Effecting(h)' /\ ~Resolving(h)'
    BY <2>3 DEF Effecting, Resolving
  <2> QED
    BY <1>5, <2>2, <2>3, <2>4, PlainHandler, SameBurns, SameMarks
       DEF LogOutSaves, TouchSaves, markVars
<1>6. ASSUME NEW h \in Handlers, BurnsCode(h) \/ FindsPresence(h)
      PROVE  BurnInv' /\ MarksInv'
  <2>1. handlers[h].op = "act" /\ (Present(h) \/ Ends(h))
    BY <1>6 DEF BurnsCode, FindsPresence, AsksPresence
  <2>2. /\ \A g \in Handlers \ {h} : handlers'[g] = handlers[g]
        /\ handlers'[h].op = "none" \/ (handlers'[h].op = "act" /\ handlers'[h].pc = "confirming")
    BY <2>1, HandlerEnds, ActGoesOn DEF Present
  <2>3. ~Effecting(h)' /\ ~Resolving(h)'
    BY <2>2 DEF Effecting, Resolving
  <2> QED
    BY <1>6, <2>2, <2>3, PlainHandler, SameBurns, SameMarks DEF BurnsCode, FindsPresence, markVars
<1>7. ASSUME NEW h \in Handlers, Ends(h), UNCHANGED <<effects, sessions, spentMarks, identified>>,
             \A n \in Nonces : confirmations[n].state = "consumed" => confirmations'[n] = confirmations[n]
      PROVE  BurnInv' /\ MarksInv'
  <2>1. handlers'[h].op = "none" /\ \A g \in Handlers \ {h} : handlers'[g] = handlers[g]
    BY <1>7, HandlerEnds
  <2>2. ~Effecting(h)' /\ ~Resolving(h)'
    BY <2>1 DEF Effecting, Resolving
  <2> QED
    BY <1>7, <2>1, <2>2, PlainHandler, SameBurns, SameMarks
<1>8. ASSUME NEW h \in Handlers, IssuesConfirmation(h)
      PROVE  BurnInv' /\ MarksInv'
  <2>1. \A n \in Nonces : confirmations[n].state = "consumed" => confirmations'[n] = confirmations[n]
    BY <1>8 DEF IssuesConfirmation, SessionTypeOK, NoToken
  <2> QED
    BY <1>7, <1>8, <2>1 DEF IssuesConfirmation, markVars
\* The confirmation was issued, so no effect had it.
<1>9. ASSUME NEW h \in Handlers, BurnsConfirmation(h)
      PROVE  BurnInv' /\ MarksInv'
  <2> DEFINE n == handlers[h].token
  <2>1. handlers[h].op = "act" /\ n \in Nonces
    BY <1>9, HandlerKinds DEF BurnsConfirmation, Confirming
  <2>2. CASE Ends(h) /\ UNCHANGED confirmations
    BY <1>7, <1>9, <2>2 DEF BurnsConfirmation, markVars
  <2>3. CASE /\ confirmations[n].state = "issued"
             /\ confirmations' = [confirmations EXCEPT ![n] = Burned(@)]
             /\ Becomes(h, [handlers[h] EXCEPT !.pc = "effect"])
    <3>1. /\ handlers'[h].token = n /\ handlers'[h].op = "act" /\ Effecting(h)'
          /\ \A g \in Handlers \ {h} : handlers'[g] = handlers[g]
      BY <2>1, <2>3, ActGoesOn DEF Effecting
    <3>2. confirmations[n] \in [state : {"issued", "consumed", "expired"}, session : Sessions,
                                action : Actions]
      BY <2>1, <2>3 DEF SessionTypeOK, TokenState, NoToken
    <3>3. /\ confirmations'[n].state = "consumed"
          /\ \A m \in Nonces : m # n => confirmations'[m] = confirmations[m]
      BY <2>1, <2>3, <3>2 DEF Burned, SessionTypeOK
    <3>4. effects[n] = 0 /\ \A g \in Handlers : Effecting(g) => handlers[g].token # n
      BY <2>1, <2>3 DEF BurnInv
    <3>5. UNCHANGED <<effects, sessions, spentMarks, identified>>
      BY <1>9 DEF BurnsConfirmation, markVars
    <3> HIDE DEF n
    <3>6. \A g \in Handlers \ {h} : Effecting(g)' <=> Effecting(g)
      BY <3>1 DEF Effecting
    <3>7. BurnInv'
      BY <2>1, <3>1, <3>3, <3>4, <3>5, <3>6 DEF BurnInv
    <3>8. \A g \in Handlers : Resolving(g)' => Resolving(g) /\ handlers'[g] = handlers[g]
      BY <3>1 DEF Resolving
    <3> QED
      BY <3>5, <3>7, <3>8, SameMarks
  <2> QED
    BY <1>9, <2>2, <2>3 DEF BurnsConfirmation
<1>10. ASSUME NEW h \in Handlers, EffectCommits(h)
       PROVE  BurnInv' /\ MarksInv'
  <2>1. PICK n \in Nonces : n = handlers[h].token
    BY <1>10 DEF BurnInv, EffectCommits, Effecting
  <2>2. /\ handlers'[h].op = "none" /\ \A g \in Handlers \ {h} : handlers'[g] = handlers[g]
        /\ effects' = [effects EXCEPT ![n] = @ + 1] /\ UNCHANGED <<confirmations, identified>>
    BY <1>10, <2>1, HandlerEnds DEF EffectCommits, markVars
  <2>3. /\ effects[n] = 0 /\ confirmations[n].state = "consumed"
        /\ \A g \in Handlers \ {h} : Effecting(g) => handlers[g].token # n
    BY <1>10, <2>1 DEF BurnInv, EffectCommits, Effecting
  <2>4. \A g \in Handlers : /\ Effecting(g)' => g # h /\ Effecting(g)
                            /\ Resolving(g)' => g # h /\ Resolving(g)
    BY <2>2 DEF Effecting, Resolving
  <2>5. BurnInv'
    BY <2>2, <2>3, <2>4 DEF BurnInv, SessionTypeOK
  <2>6. CASE UNCHANGED <<sessions, spentMarks>>
    BY <2>2, <2>4, <2>5, <2>6, SameMarks
  <2>7. CASE /\ sessions' = [s \in Sessions |-> [sessions[s] EXCEPT !.mark = 0]]
             /\ spentMarks' = spentMarks \cup ({sessions[s].mark : s \in Sessions} \ {0})
    <3>1. \A s \in Sessions : sessions'[s].mark = 0 /\ sessions[s].mark \in Nat
      BY <2>7 DEF SessionTypeOK, Row, Marks
    <3>2. spentMarks' \subseteq 1 .. identified /\ identified \in Nat
      BY <2>7, <3>1, SessionAssumption DEF MarksInv, SessionTypeOK, Marks
    <3>3. \A g \in Handlers : Resolving(g)' =>
              handlers'[g].at \in 1 .. identified /\ handlers'[g].at \notin spentMarks'
      BY <2>2, <2>4, <2>7 DEF MarksInv
    <3>4. \A g, k \in Handlers : Resolving(g)' /\ Resolving(k)' /\ g # k =>
              handlers'[g].at # handlers'[k].at
      BY <2>2, <2>4 DEF MarksInv
    <3>5. MarksInv'
      BY <2>2, <3>1, <3>2, <3>3, <3>4 DEF MarksInv
    <3> QED
      BY <2>5, <3>5
  <2> QED
    BY <1>10, <2>6, <2>7 DEF EffectCommits
<1>11. ASSUME NEW h \in Handlers, HandlerFails(h)
       PROVE  BurnInv' /\ MarksInv'
  BY <1>7, <1>11 DEF HandlerFails, markVars
<1>12. ASSUME NEW h \in Handlers, ResolveBegins(h)
       PROVE  BurnInv' /\ MarksInv'
  <2>1. handlers[h] \in [op : {"callback"}, pc : {"exchanging", "resolving"},
                         session : Sessions \cup {Nil}, at : Marks]
    BY <1>12, HandlerKinds DEF ResolveBegins
  <2>2. /\ handlers'[h].op = "callback" /\ handlers'[h].at = identified + 1
        /\ \A g \in Handlers \ {h} : handlers'[g] = handlers[g]
        /\ identified \in Nat /\ identified' = identified + 1
        /\ UNCHANGED <<sessions, effects, confirmations, spentMarks>>
    BY <1>12, <2>1, SessionAssumption DEF ResolveBegins, Becomes, SessionTypeOK, Marks
  <2>3. BurnInv'
    BY <2>2, SameBurns DEF Effecting
  <2>4. \A s \in Sessions : sessions[s].mark \in Nat
    BY DEF SessionTypeOK, Row, Marks
  <2>5. MarksInv'
    BY <2>2, <2>4 DEF MarksInv, Resolving
  <2> QED
    BY <2>3, <2>5
<1>13. ASSUME NEW h \in Handlers, ResolveCommits(h)
       PROVE  BurnInv' /\ MarksInv'
  <2>1. PICK at \in 1 .. identified :
            /\ at = handlers[h].at /\ at \notin spentMarks
            /\ \A s \in Sessions : sessions[s].mark # at
            /\ \A g \in Handlers \ {h} : Resolving(g) => handlers[g].at # at
    BY <1>13 DEF MarksInv, ResolveCommits, Resolving
  <2>2. /\ handlers'[h].op = "none" /\ \A g \in Handlers \ {h} : handlers'[g] = handlers[g]
        /\ UNCHANGED <<identified, effects, confirmations, spentMarks>>
    BY <1>13, HandlerEnds DEF ResolveCommits, markVars
  <2>3. BurnInv'
    BY <2>2, SameBurns DEF Effecting
  <2>4. \A s \in Sessions : sessions'[s].mark \in {sessions[s].mark, at}
    <3>1. handlers[h].session \in Sessions \cup {Nil}
      BY <1>13, HandlerKinds DEF ResolveCommits
    <3>2. CASE handlers[h].session = Nil
      <4>1. PICK new \in Sessions :
                sessions' = [sessions EXCEPT ![new].state = "live", ![new].mark = at]
        BY <1>13, <2>1, <3>2 DEF ResolveCommits
      <4>2. sessions' = [sessions EXCEPT ![new] = [sessions[new] EXCEPT !.state = "live", !.mark = at]]
        BY <4>1 DEF SessionTypeOK
      <4>3. [sessions[new] EXCEPT !.state = "live", !.mark = at].mark = at
        BY DEF SessionTypeOK, Row
      <4> QED
        BY <4>2, <4>3 DEF SessionTypeOK
    <3>3. CASE handlers[h].session # Nil
      BY <1>13, <2>1, <3>1, <3>3 DEF ResolveCommits, SessionTypeOK, Row
    <3> QED
      BY <3>2, <3>3
  <2>5. \A g \in Handlers : Resolving(g)' => g # h /\ Resolving(g)
    BY <2>2 DEF Resolving
  <2>6. MarksInv'
    BY <2>1, <2>2, <2>4, <2>5 DEF MarksInv
  <2> QED
    BY <2>3, <2>6
<1> QED
  BY <1>1, <1>2, <1>3, <1>4, <1>5, <1>6, <1>8, <1>9, <1>10, <1>11, <1>12, <1>13
     DEF SessionNext, sessionVars, PresenceLapses, StartJump, evidenceVars, markVars

\* One confirmation is one effect at most, a code opens one action, and the
\* presence behind a revocation is spent with it: whatever is repeated, runs
\* together, fails or read the session before (C-81, C-82, 0020).
THEOREM SessionServesOnce == SessionSpec => []ConfirmationServesOnce
<1> DEFINE IInv == SessionTypeOK /\ CodesInv /\ BurnInv /\ MarksInv
<1>1. SessionInit => IInv
  <2>1. SessionInit => CodesInv /\ BurnInv /\ MarksInv
    BY SessionAssumption DEF SessionInit, CodesInv, BurnInv, MarksInv, Effecting, Resolving, Resting
  <2> QED
    BY <2>1, SessionInitTypeOK
<1>2. IInv /\ [SessionNext]_sessionVars => IInv'
  BY SessionNextTypeOK, NextCodesInv, NextOnceInv
<1>3. ASSUME IInv
      PROVE  ConfirmationServesOnce
  <2>1. ASSUME NEW k \in TotpCodes
        PROVE  Cardinality({a \in Actions : <<k, a>> \in passed}) <= 1
    <3> DEFINE opened == {a \in Actions : <<k, a>> \in passed}
    <3>1. \A a, b \in opened : a = b
      <4>1. \A a, b \in opened : <<k, a>> = <<k, b>>
        BY <1>3 DEF CodesInv
      <4> QED
        BY <4>1
    <3> HIDE DEF opened
    <3>2. opened = {} \/ \E a \in opened : opened = {a}
      BY <3>1
    <3>3. Cardinality(opened) <= 1
      <4>1. CASE opened = {}
        BY <4>1, FS_EmptySet
      <4>2. CASE \E a \in opened : opened = {a}
        <5>1. PICK a : opened = {a}
          BY <4>2
        <5>2. Cardinality({a}) = 1
          BY FS_Singleton
        <5> QED
          BY <5>1, <5>2
      <4> QED
        BY <3>2, <4>1, <4>2
    <3> QED
      BY <3>3 DEF opened
  <2>2. SpentPresenceStaysSpent /\ ConfirmedOnce
    BY <1>3 DEF BurnInv, MarksInv, SpentPresenceStaysSpent, ConfirmedOnce
  <2> QED
    BY <2>1, <2>2 DEF ConfirmationServesOnce, CodeServesOneAction
<1> HIDE DEF IInv
<1> QED
  BY <1>1, <1>2, <1>3, PTL DEF SessionSpec

-----------------------------------------------------------------------------
(* McpOAuth: types. *)

\* A transaction at a step of an operation has in hand what that step needs.
LEMMA CallInHand ==
    ASSUME OAuthTypeOK, NEW c \in OAuthCalls
    PROVE  /\ calls[c].op \in {"none", "approve", "redeem"} \cup FamilyCalls
           /\ calls[c].op = "none" => calls[c] = NoCall
           /\ calls[c].op = "approve" =>
                 calls[c] \in [op : {"approve"}, pc : {"read", "updated"}]
           /\ calls[c].op = "redeem" =>
                 calls[c] \in [op : {"redeem"}, gen : {0}, pc : {"read", "replayed", "updated"}]
           /\ calls[c].op \in FamilyCalls =>
                 /\ calls[c].pc \in {"loading", "loaded", "decided", "saving"}
                 /\ calls[c].gen \in 0..Generations /\ calls[c].grant \in {"live", "revoked"}
           /\ calls[c].op \in FamilyCalls /\ calls[c].pc # "loading" =>
                 calls[c] \in [op : FamilyCalls, gen : 0..Generations,
                               pc : {"loaded", "decided", "saving"}, grant : {"live", "revoked"},
                               access : [Gens -> TokenStates], refresh : [Gens -> TokenStates]]
<1>1. calls[c] \in CallState
  BY DEF OAuthTypeOK
<1> QED
  BY <1>1 DEF CallState, NoCall, FamilyCalls

\* One transaction goes on to a state that is one: nobody else does.
LEMMA CallGoes ==
    ASSUME OAuthTypeOK, NEW c \in OAuthCalls, NEW next \in CallState, Go(c, next)
    PROVE  /\ calls' \in [OAuthCalls -> CallState]
           /\ calls'[c] = next
           /\ \A d \in OAuthCalls \ {c} : calls'[d] = calls[d]
BY DEF OAuthTypeOK, Go

\* One that ends has nothing in hand.
LEMMA CallEnds ==
    ASSUME OAuthTypeOK, NEW c \in OAuthCalls, Finish(c)
    PROVE  /\ calls' \in [OAuthCalls -> CallState]
           /\ calls'[c].op = "none"
           /\ \A d \in OAuthCalls \ {c} : calls'[d] = calls[d]
<1>1. NoCall \in CallState
  BY DEF CallState
<1> QED
  BY <1>1, CallGoes DEF Finish, NoCall

\* A grant that is not there has no tokens; and while the client is not trusted
\* nothing was born from a consent, nor is anybody about to make it so.
TrustInv ==
    /\ grant = "none" => \A g \in Gens : refresh[g] = "none"
    /\ client # "trusted" =>
          /\ authRequest \notin {"consented", "redeemed"} /\ grant = "none"
          /\ \A c \in OAuthCalls : calls[c].op \in {"none", "approve"}

\* A transaction that has read the family of the code goes on with a copy.
LEMMA FamilyGoes ==
    ASSUME OAuthTypeOK, NEW c \in OAuthCalls, NEW next, Go(c, next),
           next \in [op : FamilyCalls, gen : 0..Generations, pc : {"loading"},
                     grant : {"live", "revoked"}]
                    \cup [op : FamilyCalls, gen : 0..Generations,
                          pc : {"loaded", "decided", "saving"}, grant : {"live", "revoked"},
                          access : [Gens -> TokenStates], refresh : [Gens -> TokenStates]]
    PROVE  /\ calls' \in [OAuthCalls -> CallState]
           /\ calls'[c].op = next.op
           /\ calls'[c].op \in FamilyCalls
           /\ \A d \in OAuthCalls \ {c} : calls'[d] = calls[d]
<1>1. next \in CallState /\ next.op \in FamilyCalls
  BY DEF CallState
<1> QED
  BY <1>1, CallGoes

\* Who reads a family finds one, which is live or revoked.
LEMMA FamilyRead ==
    ASSUME OAuthTypeOK, TrustInv, NEW c \in OAuthCalls,
           ReplayReads(c) \/ RevokeReads(c) \/ \E g \in Gens : RefreshLocks(c, g)
    PROVE  \/ calls[c].op = "redeem" /\ Finish(c)
           \/ /\ grant # "none" /\ (calls[c] = NoCall \/ calls[c].op = "redeem")
              /\ \E next \in [op : FamilyCalls, gen : 0..Generations, pc : {"loading"},
                              grant : {"live", "revoked"}] : Go(c, next)
<1> USE OAuthAssumption
<1>1. grant \in {"none", "live", "revoked"} /\ 0 \in 0..Generations /\ Gens \subseteq 0..Generations
  BY DEF OAuthTypeOK, Gens
<1>2. CASE ReplayReads(c)
  BY <1>1, <1>2 DEF ReplayReads, FamilyCalls
<1>3. CASE RevokeReads(c)
  BY <1>1, <1>3 DEF RevokeReads, FamilyCalls
<1>4. ASSUME NEW g \in Gens, RefreshLocks(c, g)
      PROVE  /\ grant # "none" /\ calls[c] = NoCall
             /\ \E next \in [op : FamilyCalls, gen : 0..Generations, pc : {"loading"},
                             grant : {"live", "revoked"}] : Go(c, next)
  <2>1. grant # "none"
    BY <1>4 DEF RefreshLocks, TrustInv
  <2> QED
    BY <1>1, <1>4, <2>1 DEF RefreshLocks, FamilyCalls
<1> QED
  BY <1>2, <1>3, <1>4

\* Who has read a family keeps a copy of it, decides on the copy and writes it.
LEMMA FamilyStep ==
    ASSUME OAuthTypeOK, NEW c \in OAuthCalls, Loads(c) \/ Decides(c) \/ SaveGrant(c)
    PROVE  /\ calls[c].op \in FamilyCalls
           /\ \/ Finish(c)
              \/ \E next \in [op : FamilyCalls, gen : 0..Generations,
                              pc : {"loaded", "decided", "saving"}, grant : {"live", "revoked"},
                              access : [Gens -> TokenStates], refresh : [Gens -> TokenStates]] :
                     Go(c, next) /\ next.op = calls[c].op
<1> DEFINE Held == [op : FamilyCalls, gen : 0..Generations, pc : {"loaded", "decided", "saving"},
                    grant : {"live", "revoked"},
                    access : [Gens -> TokenStates], refresh : [Gens -> TokenStates]]
<1>1. CASE Loads(c)
  <2>1. calls[c].op \in FamilyCalls /\ calls[c].gen \in 0..Generations
        /\ calls[c].grant \in {"live", "revoked"}
    BY <1>1, CallInHand DEF Loads, FamilyCalls
  <2>2. [op |-> calls[c].op, gen |-> calls[c].gen, pc |-> "loaded", grant |-> calls[c].grant,
         access |-> access, refresh |-> refresh] \in Held
    BY <2>1 DEF OAuthTypeOK
  <2> QED
    BY <1>1, <2>1, <2>2 DEF Loads
<1>2. CASE Decides(c) \/ SaveGrant(c)
  <2>1. calls[c] \in Held
    BY <1>2, CallInHand DEF Decides, SaveGrant, FamilyCalls
  <2>2. ASSUME NEW tokens \in [Gens -> TokenStates]
        PROVE  RevokedIfActive(tokens) \in [Gens -> TokenStates]
    BY DEF RevokedIfActive, TokenStates
  <2>3. Revoked(calls[c]) \in Held /\ Revoked(calls[c]).op = calls[c].op
    BY <2>1, <2>2 DEF Revoked
  <2>4. Rotated(calls[c]) \in Held /\ Rotated(calls[c]).op = calls[c].op
    BY <2>1 DEF Rotated, TokenStates
  <2>5. [calls[c] EXCEPT !.pc = "saving"] \in Held
        /\ [calls[c] EXCEPT !.pc = "saving"].op = calls[c].op
    BY <2>1
  <2>6. \/ Finish(c) \/ Go(c, Revoked(calls[c])) \/ Go(c, Rotated(calls[c]))
        \/ Go(c, [calls[c] EXCEPT !.pc = "saving"])
    BY <1>2 DEF Decides, SaveGrant
  <2>7. calls[c].op \in FamilyCalls
    BY <2>1
  <2> QED
    BY <2>3, <2>4, <2>5, <2>6, <2>7
<1> QED
  BY <1>1, <1>2

\* The tables that neither a consent nor a redemption writes, and the history.
LEMMA TablesTypeOK ==
    ASSUME OAuthTypeOK, TablesStay, HistoryStays, calls' \in [OAuthCalls -> CallState]
    PROVE  OAuthTypeOK'
BY DEF OAuthTypeOK, TablesStay, HistoryStays

\* Every variable of the authorization server is well typed at first,
LEMMA OAuthInitInv == OAuthInit => OAuthTypeOK /\ TrustInv
<1> SUFFICES ASSUME OAuthInit PROVE OAuthTypeOK /\ TrustInv
  OBVIOUS
<1>1. calls \in [OAuthCalls -> CallState]
  BY DEF OAuthInit, CallState
<1>2. access \in [Gens -> TokenStates] /\ refresh \in [Gens -> TokenStates]
  BY DEF OAuthInit, TokenStates
<1>3. OAuthTypeOK
  BY <1>1, <1>2 DEF OAuthInit, OAuthTypeOK, RequestStates
<1> QED
  BY <1>3 DEF OAuthInit, TrustInv, NoCall

\* and stays so, whichever transaction or clock moves.
LEMMA OAuthNextTypeOK == OAuthTypeOK /\ TrustInv /\ [OAuthNext]_oauthVars => OAuthTypeOK'
<1> SUFFICES ASSUME OAuthTypeOK, TrustInv, [OAuthNext]_oauthVars
             PROVE  OAuthTypeOK'
  OBVIOUS
<1>1. CASE UNCHANGED oauthVars
  BY <1>1 DEF OAuthTypeOK, oauthVars
<1>2. CASE RegisterClient \/ StartAuthorization \/ RequestLapses \/ ExpireStaleRequests
           \/ DeleteTerminalRequest \/ DeleteUnconsentedClient
           \/ \E g \in Gens : RefreshExpires(g) \/ DeleteExpiredToken(g)
  <2>1. UNCHANGED <<calls, revocationTold>>
        /\ client' \in {"absent", "registered", "trusted"} /\ authRequest' \in RequestStates
        /\ lapsed' \in BOOLEAN /\ grant' \in {"none", "live", "revoked"}
        /\ expiredGens' \subseteq Gens
    BY <1>2 DEF OAuthTypeOK, RegisterClient, StartAuthorization, RequestLapses,
                ExpireStaleRequests, DeleteTerminalRequest, DeleteUnconsentedClient,
                RefreshExpires, DeleteExpiredToken, RequestStates, HistoryStays
  <2>2. access' \in [Gens -> TokenStates] /\ refresh' \in [Gens -> TokenStates]
    BY <1>2 DEF OAuthTypeOK, RegisterClient, StartAuthorization, RequestLapses,
                ExpireStaleRequests, DeleteTerminalRequest, DeleteUnconsentedClient,
                RefreshExpires, DeleteExpiredToken, TokenStates
  <2> QED
    BY <2>1, <2>2 DEF OAuthTypeOK
<1>3. ASSUME NEW c \in OAuthCalls,
             \/ ApproveReads(c) \/ ApproveUpdates(c) \/ RedeemReads(c) \/ RedeemUpdates(c)
             \/ CallRollsBack(c)
      PROVE  OAuthTypeOK'
  <2>1. TablesStay /\ HistoryStays
    BY <1>3 DEF ApproveReads, ApproveUpdates, RedeemReads, RedeemUpdates, CallRollsBack
  <2>2. Finish(c) \/ \E next \in [op : {"approve"}, pc : {"read", "updated"}]
                           \cup [op : {"redeem"}, gen : {0}, pc : {"read", "replayed", "updated"}] :
                         Go(c, next)
    BY <1>3, CallInHand DEF ApproveReads, ApproveUpdates, RedeemReads, RedeemUpdates, CallRollsBack
  <2>3. calls' \in [OAuthCalls -> CallState]
    BY <2>2, CallEnds, CallGoes DEF CallState
  <2> QED
    BY <2>1, <2>3, TablesTypeOK
<1>4. ASSUME NEW c \in OAuthCalls, ApproveCommits(c) \/ Deny(c) \/ RedeemCommits(c)
      PROVE  OAuthTypeOK'
  <2>1. calls' \in [OAuthCalls -> CallState]
    BY <1>4, CallEnds DEF ApproveCommits, Deny, RedeemCommits, OAuthTypeOK
  <2> QED
    BY <1>4, <2>1 DEF OAuthTypeOK, ApproveCommits, Deny, RedeemCommits, RequestStates,
                      TokenStates, HistoryStays
<1>5. ASSUME NEW c \in OAuthCalls,
             ReplayReads(c) \/ RevokeReads(c) \/ \E g \in Gens : RefreshLocks(c, g)
      PROVE  OAuthTypeOK'
  <2>1. TablesStay /\ HistoryStays
    BY <1>5 DEF ReplayReads, RevokeReads, RefreshLocks
  <2>2. calls' \in [OAuthCalls -> CallState]
    BY <1>5, FamilyRead, FamilyGoes, CallEnds
  <2> QED
    BY <2>1, <2>2, TablesTypeOK
<1>6. ASSUME NEW c \in OAuthCalls, Loads(c) \/ Decides(c) \/ SaveGrant(c)
      PROVE  OAuthTypeOK'
  <2>1. TablesStay /\ revocationTold' \in BOOLEAN
    BY <1>6 DEF Loads, Decides, SaveGrant, HistoryStays, RevokeAnswered, OAuthTypeOK
  <2>2. calls' \in [OAuthCalls -> CallState]
    BY <1>6, FamilyStep, FamilyGoes, CallEnds
  <2> QED
    BY <2>1, <2>2 DEF OAuthTypeOK, TablesStay
<1>7. ASSUME NEW c \in OAuthCalls, SaveCommits(c)
      PROVE  OAuthTypeOK'
  <2>1. /\ calls[c].grant \in {"live", "revoked"}
        /\ calls[c].access \in [Gens -> TokenStates]
        /\ calls[c].refresh \in [Gens -> TokenStates]
    BY <1>7, CallInHand DEF SaveCommits
  <2>2. /\ Upserted(access, calls[c].access) \in [Gens -> TokenStates]
        /\ Upserted(refresh, calls[c].refresh) \in [Gens -> TokenStates]
    BY <2>1 DEF Upserted, OAuthTypeOK
  <2>3. calls' \in [OAuthCalls -> CallState]
    BY <1>7, CallEnds DEF SaveCommits
  <2> QED
    BY <1>7, <2>1, <2>2, <2>3 DEF SaveCommits, OAuthTypeOK, RevokeAnswered
<1> QED
  BY <1>1, <1>2, <1>3, <1>4, <1>5, <1>6, <1>7 DEF OAuthNext

\* The trust of the owner is never taken back from a client with a grant.
LEMMA OAuthNextTrust == OAuthTypeOK /\ TrustInv /\ [OAuthNext]_oauthVars => TrustInv'
<1> SUFFICES ASSUME OAuthTypeOK, TrustInv, [OAuthNext]_oauthVars
             PROVE  TrustInv'
  OBVIOUS
<1>1. CASE UNCHANGED oauthVars
  BY <1>1 DEF TrustInv, oauthVars
<1>2. CASE RegisterClient \/ StartAuthorization \/ RequestLapses \/ ExpireStaleRequests
           \/ DeleteTerminalRequest \/ DeleteUnconsentedClient
           \/ \E g \in Gens : RefreshExpires(g) \/ DeleteExpiredToken(g)
  <2>1. /\ UNCHANGED calls
        /\ authRequest' \in {"consented", "redeemed"} => UNCHANGED authRequest
        /\ grant' = grant \/ grant' = "none"
        /\ grant' = "none" => \A g \in Gens : refresh'[g] = "none"
        /\ client' # "trusted" => client # "trusted"
    BY <1>2 DEF OAuthTypeOK, TrustInv, RegisterClient, StartAuthorization, RequestLapses,
                ExpireStaleRequests, DeleteTerminalRequest, DeleteUnconsentedClient,
                RefreshExpires, DeleteExpiredToken
  <2> QED
    BY <2>1 DEF TrustInv
<1>3. ASSUME NEW c \in OAuthCalls,
             \/ ApproveReads(c) \/ ApproveUpdates(c) \/ RedeemReads(c) \/ RedeemUpdates(c)
             \/ CallRollsBack(c)
      PROVE  TrustInv'
  <2>1. TablesStay
    BY <1>3 DEF ApproveReads, ApproveUpdates, RedeemReads, RedeemUpdates, CallRollsBack
  <2>2. /\ \A d \in OAuthCalls \ {c} : calls'[d] = calls[d]
        /\ \/ calls'[c].op \in {"none", "approve"}
           \/ calls'[c].op = "redeem" /\ (calls[c].op = "redeem" \/ RedeemReads(c))
    <3>1. CASE ApproveReads(c) \/ RedeemReads(c)
      BY <3>1 DEF ApproveReads, RedeemReads, Go, OAuthTypeOK
    <3>2. CASE ApproveUpdates(c) \/ RedeemUpdates(c)
      <4>1. \/ Finish(c)
            \/ \E next \in [op : {"approve"}, pc : {"updated"}]
                   \cup [op : {"redeem"}, gen : {0}, pc : {"replayed", "updated"}] :
                 next.op = calls[c].op /\ Go(c, next)
        BY <3>2, CallInHand DEF ApproveUpdates, RedeemUpdates
      <4> QED
        BY <3>2, <4>1, CallEnds DEF Go, OAuthTypeOK
    <3>3. CASE CallRollsBack(c)
      BY <3>3, CallEnds DEF CallRollsBack
    <3> QED
      BY <1>3, <3>1, <3>2, <3>3
  <2> QED
    BY <2>1, <2>2 DEF TrustInv, TablesStay, RedeemReads
<1>4. ASSUME NEW c \in OAuthCalls, ApproveCommits(c) \/ Deny(c) \/ RedeemCommits(c)
      PROVE  TrustInv'
  <2>1. CASE ApproveCommits(c)
    BY <2>1 DEF TrustInv, ApproveCommits
  <2>2. CASE Deny(c)
    BY <2>2 DEF TrustInv, Deny
  <2>3. CASE RedeemCommits(c)
    BY <2>3 DEF TrustInv, RedeemCommits
  <2> QED
    BY <1>4, <2>1, <2>2, <2>3
<1>5. ASSUME NEW c \in OAuthCalls,
             ReplayReads(c) \/ RevokeReads(c) \/ \E g \in Gens : RefreshLocks(c, g)
      PROVE  TrustInv'
  <2>1. TablesStay
    BY <1>5 DEF ReplayReads, RevokeReads, RefreshLocks
  <2>2. client = "trusted"
    BY <1>5, FamilyRead DEF TrustInv
  <2> QED
    BY <2>1, <2>2 DEF TrustInv, TablesStay
<1>6. ASSUME NEW c \in OAuthCalls, Loads(c) \/ Decides(c) \/ SaveGrant(c)
      PROVE  TrustInv'
  <2>1. TablesStay
    BY <1>6 DEF Loads, Decides, SaveGrant
  <2>2. client = "trusted"
    BY <1>6, FamilyStep DEF TrustInv, FamilyCalls
  <2> QED
    BY <2>1, <2>2 DEF TrustInv, TablesStay
<1>7. ASSUME NEW c \in OAuthCalls, SaveCommits(c)
      PROVE  TrustInv'
  <2>1. calls[c].grant \in {"live", "revoked"} /\ calls[c].op \in FamilyCalls
    BY <1>7, CallInHand DEF SaveCommits
  <2>2. client = "trusted"
    BY <2>1 DEF TrustInv, FamilyCalls
  <2> QED
    BY <1>7, <2>1, <2>2 DEF TrustInv, SaveCommits
<1> QED
  BY <1>1, <1>2, <1>3, <1>4, <1>5, <1>6, <1>7 DEF OAuthNext

-----------------------------------------------------------------------------
(* McpOAuth: consent can be traced. *)

\* One transaction at a time holds the request's row, in the state that it
\* updates; a redemption is only under way after a consent, which nothing brings
\* back once the code is redeemed; and a redeemed code has its grant.
ConsentInv ==
    /\ authRequest = "redeemed" => grant # "none"
    /\ \A c \in OAuthCalls :
          /\ calls[c].op = "approve" /\ calls[c].pc = "updated" => authRequest = "pending"
          /\ calls[c].op = "redeem" /\ calls[c].pc = "updated" => authRequest = "consented"
          /\ calls[c].op = "redeem" =>
                authRequest \in {"consented", "redeemed", "expired", "deleted"}
          /\ calls[c].op = "redeem" /\ calls[c].pc = "replayed" => authRequest # "consented"
    /\ \A c, d \in OAuthCalls :
          /\ calls[c].op \in {"approve", "redeem"} /\ calls[c].pc = "updated"
          /\ calls[d].op \in {"approve", "redeem"} /\ calls[d].pc = "updated"
          => c = d

\* The consent is undisturbed by a transaction that neither approves nor redeems.
LEMMA SameConsent ==
    ASSUME ConsentInv, NEW c \in OAuthCalls, UNCHANGED authRequest,
           grant' = "none" => grant = "none",
           \A d \in OAuthCalls \ {c} : calls'[d] = calls[d],
           calls'[c].op \notin {"approve", "redeem"}
    PROVE  ConsentInv'
BY DEF ConsentInv

\* Whoever moves, what was consented to can be traced.
LEMMA OAuthNextConsent ==
    OAuthTypeOK /\ TrustInv /\ ConsentInv /\ [OAuthNext]_oauthVars => ConsentInv'
<1> SUFFICES ASSUME OAuthTypeOK, TrustInv, ConsentInv, [OAuthNext]_oauthVars
             PROVE  ConsentInv'
  OBVIOUS
<1>1. CASE UNCHANGED oauthVars
  BY <1>1 DEF ConsentInv, oauthVars
<1>2. CASE RegisterClient \/ RequestLapses
           \/ \E g \in Gens : RefreshExpires(g) \/ DeleteExpiredToken(g)
  BY <1>2 DEF ConsentInv, RegisterClient, RequestLapses, RefreshExpires, DeleteExpiredToken
<1>3. CASE StartAuthorization
  BY <1>3 DEF ConsentInv, StartAuthorization
<1>4. CASE ExpireStaleRequests
  <2>1. \A c \in OAuthCalls : calls[c].op \in {"approve", "redeem"} => calls[c].pc # "updated"
    BY <1>4 DEF ExpireStaleRequests, NothingLocked
  <2>2. /\ authRequest \in {"pending", "consented"} /\ authRequest' = "expired"
        /\ UNCHANGED <<grant, calls>>
    BY <1>4 DEF ExpireStaleRequests
  <2> QED
    BY <2>1, <2>2 DEF ConsentInv
<1>5. CASE DeleteTerminalRequest
  BY <1>5 DEF ConsentInv, DeleteTerminalRequest
<1>6. CASE DeleteUnconsentedClient
  <2>1. \A c \in OAuthCalls :
            /\ calls[c].op \in {"approve", "redeem"} => calls[c].pc # "updated"
            /\ calls[c].op # "redeem"
    BY <1>6 DEF DeleteUnconsentedClient, NothingLocked, TrustInv
  <2>2. authRequest' # "redeemed" /\ UNCHANGED calls
    BY <1>6 DEF DeleteUnconsentedClient
  <2> QED
    BY <2>1, <2>2 DEF ConsentInv
<1>7. ASSUME NEW c \in OAuthCalls, ApproveReads(c) \/ RedeemReads(c)
      PROVE  ConsentInv'
  <2>1. /\ UNCHANGED <<authRequest, grant>>
        /\ \A d \in OAuthCalls \ {c} : calls'[d] = calls[d]
        /\ \/ calls'[c].op = "approve" /\ calls'[c].pc = "read"
           \/ /\ calls'[c].op = "redeem" /\ authRequest \in {"consented", "redeemed"}
              /\ calls'[c].pc = IF authRequest = "redeemed" THEN "replayed" ELSE "read"
    BY <1>7 DEF ApproveReads, RedeemReads, Go, TablesStay, OAuthTypeOK
  <2> QED
    BY <2>1 DEF ConsentInv
<1>8. ASSUME NEW c \in OAuthCalls, ApproveUpdates(c)
      PROVE  ConsentInv'
  <2>1. UNCHANGED <<authRequest, grant>>
    BY <1>8 DEF ApproveUpdates, TablesStay
  <2>2. CASE Finish(c)
    BY <2>1, <2>2, CallEnds, SameConsent
  <2>3. CASE Go(c, [calls[c] EXCEPT !.pc = "updated"]) /\ authRequest = "pending"
    <3>1. calls[c] \in [op : {"approve"}, pc : {"read", "updated"}]
      BY <1>8, CallInHand DEF ApproveUpdates
    <3>2. /\ calls'[c].op = "approve" /\ calls'[c].pc = "updated"
          /\ \A d \in OAuthCalls \ {c} : calls'[d] = calls[d]
      BY <2>3, <3>1 DEF Go, OAuthTypeOK
    <3>3. \A d \in OAuthCalls \ {c} :
              ~(calls[d].op \in {"approve", "redeem"} /\ calls[d].pc = "updated")
      BY <1>8 DEF ApproveUpdates, RequestFree, Others
    <3> QED
      BY <2>1, <2>3, <3>2, <3>3 DEF ConsentInv
  <2> QED
    BY <1>8, <2>2, <2>3 DEF ApproveUpdates
<1>9. ASSUME NEW c \in OAuthCalls, ApproveCommits(c)
      PROVE  ConsentInv'
  <2>1. authRequest = "pending" /\ authRequest' = "consented" /\ UNCHANGED grant
    BY <1>9 DEF ApproveCommits, ConsentInv
  <2>2. /\ \A d \in OAuthCalls \ {c} : calls'[d] = calls[d]
        /\ calls'[c].op = "none"
    BY <1>9, CallEnds DEF ApproveCommits
  <2>3. \A d \in OAuthCalls : calls[d].op # "redeem"
    BY <2>1 DEF ConsentInv
  <2>4. \A d \in OAuthCalls \ {c} : ~(calls[d].op = "approve" /\ calls[d].pc = "updated")
    BY <1>9 DEF ApproveCommits, ConsentInv
  <2> QED
    BY <2>1, <2>2, <2>3, <2>4 DEF ConsentInv
<1>10. ASSUME NEW c \in OAuthCalls, Deny(c)
       PROVE  ConsentInv'
  <2>1. /\ authRequest = "pending" /\ authRequest' = "denied" /\ UNCHANGED <<calls, grant>>
        /\ calls[c].op = "none"
    BY <1>10 DEF Deny, NoCall
  <2>2. \A d \in OAuthCalls : ~(calls[d].op \in {"approve", "redeem"} /\ calls[d].pc = "updated")
    BY <1>10, <2>1 DEF Deny, RequestFree, Others
  <2> QED
    BY <2>1, <2>2 DEF ConsentInv
<1>11. ASSUME NEW c \in OAuthCalls, RedeemUpdates(c)
       PROVE  ConsentInv'
  <2>1. UNCHANGED <<authRequest, grant>>
    BY <1>11 DEF RedeemUpdates, TablesStay
  <2>2. calls[c] \in [op : {"redeem"}, gen : {0}, pc : {"read", "replayed", "updated"}]
    BY <1>11, CallInHand DEF RedeemUpdates
  <2>3. CASE Finish(c)
    BY <2>1, <2>3, CallEnds, SameConsent
  <2>4. CASE Go(c, [calls[c] EXCEPT !.pc = "updated"]) /\ authRequest = "consented"
    <3>1. /\ calls'[c].op = "redeem" /\ calls'[c].pc = "updated"
          /\ \A d \in OAuthCalls \ {c} : calls'[d] = calls[d]
      BY <2>2, <2>4 DEF Go, OAuthTypeOK
    <3>2. \A d \in OAuthCalls \ {c} :
              ~(calls[d].op \in {"approve", "redeem"} /\ calls[d].pc = "updated")
      BY <1>11 DEF RedeemUpdates, RequestFree, Others
    <3> QED
      BY <2>1, <2>4, <3>1, <3>2 DEF ConsentInv
  <2>5. CASE Go(c, [calls[c] EXCEPT !.pc = "replayed"]) /\ authRequest # "consented"
    <3>1. /\ calls'[c].op = "redeem" /\ calls'[c].pc = "replayed" /\ calls[c].op = "redeem"
          /\ \A d \in OAuthCalls \ {c} : calls'[d] = calls[d]
      BY <2>2, <2>5 DEF Go, OAuthTypeOK
    <3> QED
      BY <2>1, <2>5, <3>1 DEF ConsentInv
  <2> QED
    BY <1>11, <2>3, <2>4, <2>5 DEF RedeemUpdates
<1>12. ASSUME NEW c \in OAuthCalls, RedeemCommits(c)
       PROVE  ConsentInv'
  <2>1. authRequest = "consented" /\ authRequest' = "redeemed" /\ grant' = "live"
    BY <1>12 DEF RedeemCommits, ConsentInv
  <2>2. /\ \A d \in OAuthCalls \ {c} : calls'[d] = calls[d]
        /\ calls'[c].op = "none"
    BY <1>12, CallEnds DEF RedeemCommits
  <2>3. \A d \in OAuthCalls \ {c} :
            ~(calls[d].op \in {"approve", "redeem"} /\ calls[d].pc = "updated")
    BY <1>12 DEF RedeemCommits, ConsentInv
  <2> QED
    BY <2>1, <2>2, <2>3 DEF ConsentInv
<1>13. ASSUME NEW c \in OAuthCalls,
              \/ ReplayReads(c) \/ RevokeReads(c) \/ (\E g \in Gens : RefreshLocks(c, g))
              \/ Loads(c) \/ Decides(c) \/ SaveGrant(c) \/ CallRollsBack(c)
       PROVE  ConsentInv'
  <2>1. UNCHANGED <<authRequest, grant>>
    BY <1>13 DEF ReplayReads, RevokeReads, RefreshLocks, Loads, Decides, SaveGrant,
                 CallRollsBack, TablesStay
  <2>2. /\ \A d \in OAuthCalls \ {c} : calls'[d] = calls[d]
        /\ calls'[c].op \in {"none"} \cup FamilyCalls
    BY <1>13, FamilyRead, FamilyStep, FamilyGoes, CallEnds DEF CallRollsBack
  <2> QED
    BY <2>1, <2>2, SameConsent DEF FamilyCalls
<1>14. ASSUME NEW c \in OAuthCalls, SaveCommits(c)
       PROVE  ConsentInv'
  <2>1. calls[c].grant \in {"live", "revoked"}
    BY <1>14, CallInHand DEF SaveCommits
  <2>2. UNCHANGED authRequest /\ grant' # "none" /\ Finish(c)
    BY <1>14, <2>1 DEF SaveCommits
  <2> QED
    BY <2>2, CallEnds, SameConsent
<1> QED
  BY <1>1, <1>2, <1>3, <1>4, <1>5, <1>6, <1>7, <1>8, <1>9, <1>10, <1>11, <1>12, <1>13, <1>14
     DEF OAuthNext

\* A behaviour of the server keeps its types, the trust and the trace.
LEMMA OAuthInvariant == OAuthSpec => [](OAuthTypeOK /\ TrustInv /\ ConsentInv)
<1>1. OAuthInit => OAuthTypeOK /\ TrustInv /\ ConsentInv
  BY OAuthInitInv DEF OAuthInit, ConsentInv, NoCall
<1>2. OAuthTypeOK /\ TrustInv /\ ConsentInv /\ [OAuthNext]_oauthVars
          => (OAuthTypeOK /\ TrustInv /\ ConsentInv)'
  BY OAuthNextTypeOK, OAuthNextTrust, OAuthNextConsent
<1> QED
  BY <1>1, <1>2, PTL DEF OAuthSpec

\* The rows of the server, and the transactions on them, stay well typed.
THEOREM OAuthTypes == OAuthSpec => []OAuthTypeOK
BY OAuthInvariant, PTL

\* A redemption that loses to another one finds the family it has to revoke, and
\* a client the owner consented to is not pruned under its grant: however many
\* transactions overlap, and however often the tokens are rotated.
THEOREM OAuthConsent == OAuthSpec => []ConsentIsTraceable
<1>1. OAuthTypeOK /\ TrustInv /\ ConsentInv => ConsentIsTraceable
  BY DEF TrustInv, ConsentInv, ConsentIsTraceable, ReplayFindsFamily, GrantKeepsItsClient
<1> QED
  BY <1>1, OAuthInvariant, PTL

-----------------------------------------------------------------------------
(* CapsStore: types. *)

\* The empty document is one, and what is loaded from a file is whole.
LEMMA LoadedIsWhole ==
    ASSUME NEW content \in Documents \cup {Missing, Damaged}
    PROVE  /\ EmptyDocument \in Documents
           /\ LoadSnapshot(content) \in [available : BOOLEAN, doc : Documents]
BY CapsStoreAssumption
   DEF EmptyDocument, Documents, CapsDays, LoadSnapshot, Unavailable

\* Pruning old days and spending a change of today keep the counters in range.
LEMMA SpentIsInRange ==
    ASSUME NEW changes \in [CapsDays -> 0..MaxChangesPerDay], NEW today \in CapsDays,
           changes[today] < MaxChangesPerDay
    PROVE  /\ SpendOneChange(changes, today) \in [CapsDays -> 0..MaxChangesPerDay]
           /\ SpendOneChange(changes, today)[today] = changes[today] + 1
<1>1. PruneChangeDays(changes, today) \in [CapsDays -> 0..MaxChangesPerDay]
  BY CapsStoreAssumption DEF PruneChangeDays, CapsDays
<1>2. changes[today] + 1 \in 0..MaxChangesPerDay
  BY CapsStoreAssumption
<1> QED
  BY <1>1, <1>2 DEF SpendOneChange

\* A change under way holds a whole document, which counts one change more.
LEMMA MutationStarts ==
    ASSUME CapsTypeOK, NEW accounts \in [CapAccounts -> (Requestable \cup HandEdited \cup {None})],
           StartMutation(accounts)
    PROVE  /\ mutation' \in [doc : Documents, step : {"temporary"}]
           /\ mutation'.doc.changes[capsDay] = snapshot.doc.changes[capsDay] + 1
           /\ snapshot.available
           /\ UNCHANGED <<capsFile, document, durable, snapshot, capsDay, accepted, unsettled>>
<1> DEFINE changes == SpendOneChange(snapshot.doc.changes, capsDay)
<1>1. /\ snapshot.doc.changes \in [CapsDays -> 0..MaxChangesPerDay] /\ capsDay \in CapsDays
      /\ snapshot.doc.changes[capsDay] < MaxChangesPerDay
  BY DEF CapsTypeOK, StartMutation, Documents
<1>2. /\ changes \in [CapsDays -> 0..MaxChangesPerDay]
      /\ changes[capsDay] = snapshot.doc.changes[capsDay] + 1
  BY <1>1, SpentIsInRange
<1>3. mutation' = [doc |-> [accounts |-> accounts, changes |-> changes], step |-> "temporary"]
  BY DEF StartMutation
<1> HIDE DEF changes
<1> QED
  BY <1>2, <1>3 DEF StartMutation, Documents

\* A request, whether it sets caps or deletes them, starts one change.
LEMMA RequestStarts ==
    ASSUME CapsTypeOK,
           \E a \in CapAccounts : DeleteAccountCaps(a)
                                  \/ \E amounts \in Requestable : SetAccountCaps(a, amounts)
    PROVE  /\ mutation' \in [doc : Documents, step : {"temporary"}]
           /\ mutation'.doc.changes[capsDay] = snapshot.doc.changes[capsDay] + 1
           /\ snapshot.available /\ capsFile.envelope # None
           /\ UNCHANGED <<capsFile, document, durable, snapshot, capsDay, accepted, unsettled>>
<1>1. snapshot.doc.accounts \in [CapAccounts -> (Requestable \cup HandEdited \cup {None})]
  BY DEF CapsTypeOK, Documents
<1>2. PICK accounts \in [CapAccounts -> (Requestable \cup HandEdited \cup {None})] :
          StartMutation(accounts)
  BY <1>1 DEF DeleteAccountCaps, SetAccountCaps
<1> QED
  BY <1>2, MutationStarts DEF DeleteAccountCaps, SetAccountCaps

\* Someone edits the amounts and leaves the counters, or the document is lost.
LEMMA TamperedDocument ==
    ASSUME CapsTypeOK, DocumentTampered
    PROVE  /\ \/ document' = Damaged
              \/ /\ document \in Documents /\ document' \in Documents
                 /\ document'.changes = document.changes
           /\ durable' = document' /\ unsettled' = TRUE /\ mutation = None
           /\ UNCHANGED <<capsFile, snapshot, mutation, capsDay, accepted>>
<1>1. /\ \/ document' = Damaged
         \/ /\ document \notin {Missing, Damaged}
            /\ \E a \in CapAccounts, amounts \in HandEdited :
                  document' = [document EXCEPT !.accounts[a] = amounts]
      /\ durable' = document' /\ unsettled' = TRUE /\ mutation = None
      /\ UNCHANGED <<capsFile, snapshot, mutation, capsDay, accepted>>
  BY DEF DocumentTampered
<1>2. ASSUME document \notin {Missing, Damaged}, NEW a \in CapAccounts, NEW amounts \in HandEdited,
             document' = [document EXCEPT !.accounts[a] = amounts]
      PROVE  /\ document \in Documents /\ document' \in Documents
             /\ document'.changes = document.changes
  <2>1. document \in Documents
    BY <1>2 DEF CapsTypeOK
  <2> QED
    BY <1>2, <2>1 DEF Documents
<1> QED
  BY <1>1, <1>2

\* At first the broker has loaded no document.
LEMMA CapsInitTypeOK == CapsInit => CapsTypeOK
<1> SUFFICES ASSUME CapsInit PROVE CapsTypeOK
  OBVIOUS
<1>1. snapshot \in [available : BOOLEAN, doc : Documents]
  BY LoadedIsWhole DEF CapsInit, Loaded
<1>2. 0 \in CapsDays
  BY CapsStoreAssumption DEF CapsDays
<1>3. accepted \in [CapsDays -> Nat]
  BY DEF CapsInit
<1> QED
  BY <1>1, <1>2, <1>3 DEF CapsInit, CapsTypeOK

\* Requests, failures, restarts and hands keep the documents whole.
LEMMA CapsNextTypeOK == CapsTypeOK /\ [CapsNext]_capsVars => CapsTypeOK'
<1> SUFFICES ASSUME CapsTypeOK, [CapsNext]_capsVars
             PROVE  CapsTypeOK'
  OBVIOUS
<1> USE CapsStoreAssumption
<1>1. CASE UNCHANGED capsVars
  BY <1>1 DEF CapsTypeOK, capsVars
<1>2. CASE \E a \in CapAccounts : DeleteAccountCaps(a)
                                  \/ \E amounts \in Requestable : SetAccountCaps(a, amounts)
  BY <1>2, RequestStarts DEF CapsTypeOK
<1>3. CASE ReplaceDocument
  <2>1. mutation \in [doc : Documents, step : {"temporary", "replaced"}]
    BY <1>3 DEF ReplaceDocument, CapsTypeOK
  <2>2. mutation' \in [doc : Documents, step : {"temporary", "replaced"}]
        /\ document' \in Documents
    BY <1>3, <2>1 DEF ReplaceDocument
  <2> QED
    BY <1>3, <2>2 DEF ReplaceDocument, CapsTypeOK
<1>4. CASE ConfirmMutation
  <2>1. mutation.doc \in Documents
    BY <1>4 DEF ConfirmMutation, CapsTypeOK
  <2>2. accepted' \in [CapsDays -> Nat]
    BY <1>4 DEF ConfirmMutation, CapsTypeOK
  <2>3. snapshot' \in [available : BOOLEAN, doc : Documents] /\ durable' \in Documents
        /\ mutation' = None /\ unsettled' = FALSE /\ UNCHANGED <<capsFile, document, capsDay>>
    BY <1>4, <2>1 DEF ConfirmMutation, FsyncDirectory
  <2> QED
    BY <2>2, <2>3 DEF CapsTypeOK
<1>5. CASE MutationFails \/ WriteBack
  BY <1>5 DEF MutationFails, WriteBack, CapsTypeOK
<1>6. CASE BrokerRestarts
  <2>1. /\ document' \in Documents \cup {Missing, Damaged} /\ unsettled' \in BOOLEAN
        /\ capsFile' \in CapsFiles /\ mutation' = None
        /\ UNCHANGED <<durable, capsDay, accepted>>
    BY <1>6 DEF BrokerRestarts, CapsTypeOK
  <2>2. snapshot' \in [available : BOOLEAN, doc : Documents]
    BY <1>6, <2>1, LoadedIsWhole DEF BrokerRestarts, Loaded
  <2> QED
    BY <2>1, <2>2 DEF CapsTypeOK
<1>7. CASE DocumentTampered
  BY <1>7, TamperedDocument DEF CapsTypeOK
<1>8. CASE CapsMidnight
  BY <1>8 DEF CapsMidnight, CapsTypeOK, CapsDays
<1> QED
  BY <1>1, <1>2, <1>3, <1>4, <1>5, <1>6, <1>7, <1>8 DEF CapsNext

-----------------------------------------------------------------------------
(* CapsStore: the budget of changes and what is kept. *)

\* A file that can be read has counted the changes confirmed today.
Counts(content) ==
    /\ content = Missing => accepted[capsDay] = 0
    /\ content \in Documents => accepted[capsDay] <= content.changes[capsDay]

\* Every document from which the broker may decide has counted what was
\* confirmed, and the one under way counts one more.
BudgetInv ==
    /\ \A d \in CapsDays : accepted[d] <= MaxChangesPerDay /\ (d > capsDay => accepted[d] = 0)
    /\ Counts(document) /\ Counts(durable)
    /\ capsFile.envelope # None /\ snapshot.available =>
          accepted[capsDay] <= snapshot.doc.changes[capsDay]
    /\ mutation # None => accepted[capsDay] < mutation.doc.changes[capsDay]
    /\ mutation # None /\ mutation.step = "replaced" => document = mutation.doc

\* While nothing is unsettled, file, disk and memory agree.
KeptInv ==
    ~unsettled =>
        /\ document = durable
        /\ capsFile.envelope # None => snapshot = LoadSnapshot(durable)

\* At first nothing is counted and nothing is unsettled.
LEMMA CapsInitInv == CapsInit => BudgetInv /\ KeptInv
<1> SUFFICES ASSUME CapsInit PROVE BudgetInv /\ KeptInv
  OBVIOUS
<1>1. /\ 0 \in CapsDays /\ MaxChangesPerDay >= 0 /\ MaxChangesPerDay \in Nat
      /\ Missing \notin Documents /\ Missing # Damaged
      /\ EmptyDocument.changes[0] = 0
  BY CapsStoreAssumption DEF CapsDays, EmptyDocument
<1>2. /\ snapshot = LoadSnapshot(Missing) /\ snapshot.doc = EmptyDocument
      /\ \A d \in CapsDays : accepted[d] = 0
  BY <1>1 DEF CapsInit, Loaded, LoadSnapshot
<1> QED
  BY <1>1, <1>2 DEF CapsInit, BudgetInv, KeptInv, Counts

\* Every step keeps the count of the changes of the day ahead of the answers.
LEMMA CapsNextBudget == CapsTypeOK /\ BudgetInv /\ [CapsNext]_capsVars => BudgetInv'
<1> SUFFICES ASSUME CapsTypeOK, BudgetInv, [CapsNext]_capsVars
             PROVE  BudgetInv'
  OBVIOUS
<1>0. /\ MaxChangesPerDay \in Nat /\ MaxCapsDay \in Nat
      /\ Missing \notin Documents /\ Damaged \notin Documents /\ Missing # Damaged
  BY CapsStoreAssumption
<1>1. CASE UNCHANGED capsVars
  BY <1>1 DEF BudgetInv, Counts, capsVars
<1>2. CASE \E a \in CapAccounts : DeleteAccountCaps(a)
                                  \/ \E amounts \in Requestable : SetAccountCaps(a, amounts)
  <2>1. /\ mutation' \in [doc : Documents, step : {"temporary"}]
        /\ mutation'.doc.changes[capsDay] = snapshot.doc.changes[capsDay] + 1
        /\ snapshot.available /\ capsFile.envelope # None
        /\ UNCHANGED <<capsFile, document, durable, snapshot, capsDay, accepted, unsettled>>
    BY <1>2, RequestStarts
  <2>2. accepted[capsDay] \in Nat /\ snapshot.doc.changes[capsDay] \in Nat
        /\ accepted[capsDay] <= snapshot.doc.changes[capsDay]
    BY <1>0, <2>1 DEF CapsTypeOK, Documents, BudgetInv
  <2>3. accepted[capsDay] < mutation'.doc.changes[capsDay] /\ mutation'.step # "replaced"
    BY <2>1, <2>2
  <2> QED
    BY <2>1, <2>3 DEF BudgetInv, Counts
<1>3. CASE ReplaceDocument
  <2>1. mutation # None /\ mutation \in [doc : Documents, step : {"temporary", "replaced"}]
    BY <1>3 DEF ReplaceDocument, CapsTypeOK
  <2>2. /\ document' = mutation.doc /\ mutation'.doc = mutation.doc
        /\ UNCHANGED <<capsFile, durable, snapshot, capsDay, accepted>>
    BY <1>3, <2>1 DEF ReplaceDocument
  <2>3. /\ mutation.doc \in Documents /\ accepted[capsDay] < mutation.doc.changes[capsDay]
        /\ accepted[capsDay] \in Nat /\ mutation.doc.changes[capsDay] \in Nat
    BY <1>0, <2>1 DEF BudgetInv, CapsTypeOK, Documents
  <2>4. accepted[capsDay] <= mutation.doc.changes[capsDay]
    BY <2>3
  <2> QED
    BY <1>0, <2>1, <2>2, <2>3, <2>4 DEF BudgetInv, Counts
<1>4. CASE ConfirmMutation
  <2>1. mutation # None /\ mutation \in [doc : Documents, step : {"temporary", "replaced"}]
        /\ mutation.step = "replaced"
    BY <1>4 DEF ConfirmMutation, CapsTypeOK
  <2>2. /\ durable' = mutation.doc /\ snapshot'.doc = mutation.doc /\ mutation' = None
        /\ document' = mutation.doc /\ capsDay' = capsDay /\ capsDay \in CapsDays
        /\ accepted'[capsDay] = accepted[capsDay] + 1
        /\ \A d \in CapsDays \ {capsDay} : accepted'[d] = accepted[d]
    BY <1>4, <2>1 DEF ConfirmMutation, FsyncDirectory, CapsTypeOK, BudgetInv
  <2>3. /\ mutation.doc \in Documents /\ accepted[capsDay] < mutation.doc.changes[capsDay]
        /\ accepted[capsDay] \in Nat /\ mutation.doc.changes[capsDay] \in 0..MaxChangesPerDay
    BY <1>0, <2>1 DEF BudgetInv, CapsTypeOK, Documents
  <2>4. /\ accepted'[capsDay] <= mutation.doc.changes[capsDay]
        /\ accepted'[capsDay] <= MaxChangesPerDay
    BY <1>0, <2>2, <2>3
  <2>5. \A d \in CapsDays : accepted'[d] <= MaxChangesPerDay /\ (d > capsDay => accepted'[d] = 0)
    BY <2>2, <2>4 DEF BudgetInv, CapsDays
  <2> QED
    BY <1>0, <2>2, <2>3, <2>4, <2>5 DEF BudgetInv, Counts
<1>5. CASE MutationFails \/ WriteBack
  BY <1>5 DEF MutationFails, WriteBack, BudgetInv, Counts
<1>6. CASE BrokerRestarts
  <2>1. /\ document' \in {document, durable} /\ mutation' = None
        /\ UNCHANGED <<durable, capsDay, accepted>>
        /\ snapshot' = Loaded(document', capsFile')
    BY <1>6 DEF BrokerRestarts
  <2>2. Counts(document)'
    BY <2>1 DEF BudgetInv, Counts
  <2>3. document' \in Documents \cup {Missing, Damaged} /\ capsDay \in CapsDays
        /\ EmptyDocument.changes[capsDay] = 0
    BY <2>1 DEF CapsTypeOK, EmptyDocument
  <2>4. capsFile'.envelope # None /\ snapshot'.available =>
            accepted[capsDay] <= snapshot'.doc.changes[capsDay]
    BY <1>0, <2>1, <2>2, <2>3 DEF Loaded, LoadSnapshot, Unavailable, Counts
  <2> QED
    BY <2>1, <2>2, <2>4 DEF BudgetInv, Counts
<1>7. CASE DocumentTampered
  <2>1. /\ \/ document' = Damaged
           \/ /\ document \in Documents /\ document' \in Documents
              /\ document'.changes = document.changes
        /\ durable' = document' /\ mutation = None
        /\ UNCHANGED <<capsFile, snapshot, mutation, capsDay, accepted>>
    BY <1>7, TamperedDocument
  <2>2. Counts(document)' /\ Counts(durable)'
    BY <1>0, <2>1 DEF BudgetInv, Counts
  <2> QED
    BY <2>1, <2>2 DEF BudgetInv
<1>8. CASE CapsMidnight
  <2>1. /\ capsDay' = capsDay + 1 /\ capsDay \in CapsDays /\ capsDay' \in CapsDays
        /\ mutation = None
        /\ UNCHANGED <<capsFile, document, durable, snapshot, mutation, accepted>>
    BY <1>0, <1>8 DEF CapsMidnight, CapsTypeOK, CapsDays
  <2>2. accepted[capsDay'] = 0 /\ \A d \in CapsDays : d > capsDay' => accepted[d] = 0
    BY <2>1 DEF BudgetInv, CapsDays
  <2>3. /\ document \in Documents => document.changes[capsDay'] >= 0
        /\ durable \in Documents => durable.changes[capsDay'] >= 0
        /\ snapshot.doc.changes[capsDay'] >= 0
    BY <1>0, <2>1 DEF Documents, CapsTypeOK
  <2> QED
    BY <2>1, <2>2, <2>3 DEF BudgetInv, Counts
<1> QED
  BY <1>1, <1>2, <1>3, <1>4, <1>5, <1>6, <1>7, <1>8 DEF CapsNext

\* Every step that leaves nothing unsettled leaves memory, file and disk alike.
LEMMA CapsNextKept == CapsTypeOK /\ BudgetInv /\ KeptInv /\ [CapsNext]_capsVars => KeptInv'
<1> SUFFICES ASSUME CapsTypeOK, BudgetInv, KeptInv, [CapsNext]_capsVars
             PROVE  KeptInv'
  OBVIOUS
<1>0. Missing \notin Documents /\ Damaged \notin Documents
  BY CapsStoreAssumption
<1>1. CASE UNCHANGED capsVars
  BY <1>1 DEF KeptInv, LoadSnapshot, capsVars
<1>2. CASE \E a \in CapAccounts : DeleteAccountCaps(a)
                                  \/ \E amounts \in Requestable : SetAccountCaps(a, amounts)
  <2>1. UNCHANGED <<capsFile, document, durable, snapshot, unsettled>>
    BY <1>2, RequestStarts
  <2> QED
    BY <2>1 DEF KeptInv, LoadSnapshot
<1>3. CASE ReplaceDocument \/ DocumentTampered
  BY <1>3, TamperedDocument DEF ReplaceDocument, KeptInv
<1>4. CASE ConfirmMutation
  <2>1. mutation.doc \in Documents /\ document = mutation.doc
    BY <1>4 DEF ConfirmMutation, CapsTypeOK, BudgetInv
  <2> QED
    BY <1>0, <1>4, <2>1 DEF ConfirmMutation, FsyncDirectory, KeptInv, LoadSnapshot
<1>5. CASE MutationFails \/ WriteBack
  BY <1>5 DEF MutationFails, WriteBack, KeptInv, LoadSnapshot
<1>6. CASE BrokerRestarts
  <2>1. /\ snapshot' = Loaded(document', capsFile') /\ durable' = durable
        /\ ~unsettled' => document' = durable
    BY <1>6 DEF BrokerRestarts, KeptInv
  <2> QED
    BY <2>1 DEF KeptInv, Loaded, LoadSnapshot
<1>7. CASE CapsMidnight
  BY <1>7 DEF CapsMidnight, KeptInv, LoadSnapshot
<1> QED
  BY <1>1, <1>2, <1>3, <1>4, <1>5, <1>6, <1>7 DEF CapsNext

\* The broker's documents, snapshot and counters stay well typed.
THEOREM CapsTypes == CapsSpec => []CapsTypeOK
BY CapsInitTypeOK, CapsNextTypeOK, PTL DEF CapsSpec

\* Whatever is in the document, however it came there, and whatever version of
\* the operator's file the broker runs with, no account gets more than the
\* file's entry or, without one, the envelope.
THEOREM CapsAuthority == CapsSpec => []AuthorityHolds
<1>1. CapsTypeOK => AuthorityHolds
  <2> SUFFICES ASSUME CapsTypeOK, NEW a \in CapAccounts, EffectiveCaps(a) # None,
                      NEW f \in SettableFields
               PROVE  EffectiveCaps(a)[f] <= IF capsFile.accounts[a] # None
                                             THEN capsFile.accounts[a][f]
                                             ELSE capsFile.envelope[f]
    BY DEF AuthorityHolds
  <2> DEFINE content == capsFile.accounts[a]
             panel == PanelAmountsOf(a)
             envelope == capsFile.envelope
  <2>1. /\ content \in [Fields -> Int] \cup {None} /\ envelope \in [Fields -> Int] \cup {None}
        /\ f \in Fields /\ f # "floor"
    BY CapsStoreAssumption DEF CapsTypeOK, Fields, SettableFields
  <2>2. panel \in Amounts \cup {None}
    BY CapsStoreAssumption DEF PanelAmountsOf, CapsTypeOK, Documents
  <2>3. CASE envelope = None \/ panel = None
    BY <2>1, <2>3 DEF EffectiveCaps, ResolveEffectiveCaps
  <2>4. CASE envelope # None /\ panel # None
    <3>1. /\ ClampToEnvelope(panel, envelope)[f] \in Int
          /\ ClampToEnvelope(panel, envelope)[f] <= envelope[f]
      BY <2>1, <2>2, <2>4 DEF ClampToEnvelope, Lower, Amounts
    <3>2. EffectiveCaps(a)[f] = IF content = None THEN ClampToEnvelope(panel, envelope)[f]
                                ELSE Lower(ClampToEnvelope(panel, envelope)[f], content[f])
      BY <2>1, <2>4 DEF EffectiveCaps, ResolveEffectiveCaps
    <3> QED
      BY <2>1, <2>4, <3>1, <3>2 DEF Lower
  <2> QED
    BY <2>3, <2>4
<1> QED
  BY <1>1, CapsTypes, PTL

\* A behaviour of the store keeps its types, its budget and its promise.
LEMMA CapsInvariant == CapsSpec => [](CapsTypeOK /\ BudgetInv /\ KeptInv)
<1>1. CapsInit => CapsTypeOK /\ BudgetInv /\ KeptInv
  BY CapsInitTypeOK, CapsInitInv
<1>2. CapsTypeOK /\ BudgetInv /\ KeptInv /\ [CapsNext]_capsVars
          => (CapsTypeOK /\ BudgetInv /\ KeptInv)'
  BY CapsNextTypeOK, CapsNextBudget, CapsNextKept
<1> QED
  BY <1>1, <1>2, PTL DEF CapsSpec

\* No more changes are confirmed in a day than the envelope allows, over
\* crashes, power losses, failed writes and restarts with another file.
THEOREM CapsBudget == CapsSpec => []ChangesWithinBudget
<1>1. BudgetInv => ChangesWithinBudget
  BY DEF BudgetInv, ChangesWithinBudget
<1> QED
  BY <1>1, CapsInvariant, PTL

\* What was confirmed to the owner is what a power loss leaves, and what the
\* broker would load then is what it decides with now.
THEOREM CapsKept == CapsSpec => []ConfirmedIsKept
<1>1. KeptInv => ConfirmedIsKept
  BY DEF KeptInv, ConfirmedIsKept
<1> QED
  BY <1>1, CapsInvariant, PTL

-----------------------------------------------------------------------------
(* PlatformConnect: types. *)

\* A pair of an attempt and an account is a credential of that attempt.
LEMMA CredentialsOfOne ==
    ASSUME NEW s \in Attempts
    PROVE  CredentialsOf(s) \subseteq Credentials
BY DEF CredentialsOf, Credentials

\* A request that is at work works for an attempt, in either process.
Working ==
    /\ \A c \in Callbacks : job[c].at # "idle" => job[c].attempt \in Attempts
    /\ \A c \in Callbacks : call[c].at # "idle" => call[c].attempt \in Attempts

\* The revocation and the health check in hand are about one credential.
Asking ==
    /\ revoke.at # "idle" => revoke.of \in Credentials
    /\ health.at # "idle" => health.of \in Credentials
    /\ health.at = "told" => health.probe \in {"connected", "revoked"}

ConnectTypes == ConnectTypeOK /\ Working /\ Asking

\* The broker answers, or drops the request that nobody waits for.
LEMMA AnswerType ==
    ASSUME ConnectTypes, NEW c \in Callbacks, NEW at \in {"found", "denied"},
           job[c].at # "idle", CallAnswered(c, at)
    PROVE  /\ job' \in [Callbacks -> [at : {"idle", "popping", "redeeming", "saving", "found",
                                            "denied"},
                                      attempt : Attempts \cup {Nothing}]]
           /\ \A d \in Callbacks \ {c} : job'[d] = job[d]
           /\ job'[c] = NoRequestInHand
              \/ (job'[c].at = at /\ job'[c].attempt = job[c].attempt)
BY DEF CallAnswered, ConnectTypes, ConnectTypeOK, NoRequestInHand, Working

\* A request in the broker goes on to its next step.
LEMMA JobGoesOn ==
    ASSUME ConnectTypes, NEW c \in Callbacks, NEW at \in {"redeeming", "saving"},
           job' = [job EXCEPT ![c].at = at]
    PROVE  /\ job' \in [Callbacks -> [at : {"idle", "popping", "redeeming", "saving", "found",
                                            "denied"},
                                      attempt : Attempts \cup {Nothing}]]
           /\ \A d \in Callbacks \ {c} : job'[d] = job[d]
           /\ job'[c].at = at /\ job'[c].attempt = job[c].attempt
BY DEF ConnectTypes, ConnectTypeOK

\* At first nothing is in hand.
LEMMA ConnectInitTypes == ConnectInit => ConnectTypes
BY PlatformConnectAssumption
   DEF ConnectInit, ConnectTypes, ConnectTypeOK, Working, Asking, Unasked, NoRequestInHand,
       NoRevoke, NoHealth

\* Every step of the two processes, and every crash, keeps the types.
LEMMA ConnectNextTypes == ConnectTypes /\ [ConnectNext]_connectVars => ConnectTypes'
<1> SUFFICES ASSUME ConnectTypes, [ConnectNext]_connectVars
             PROVE  ConnectTypes'
  OBVIOUS
<1> USE PlatformConnectAssumption
<1>1. CASE UNCHANGED connectVars
  BY <1>1 DEF ConnectTypes, ConnectTypeOK, Working, Asking, connectVars
<1>2. ASSUME NEW s \in Attempts, BrokerBegins(s) \/ AttemptStarts(s) \/ TenMinutesPass(s)
      PROVE  ConnectTypes'
  BY <1>2 DEF ConnectTypes, ConnectTypeOK, Working, Asking, BrokerBegins, AttemptStarts,
              TenMinutesPass
<1>3. ASSUME NEW c \in Callbacks, NEW s \in Attempts, NEW code \in BOOLEAN,
             CallbackArrives(c, s, code)
      PROVE  ConnectTypes'
  BY <1>3 DEF ConnectTypes, ConnectTypeOK, Working, Asking, CallbackArrives
<1>4. ASSUME NEW c \in Callbacks, RequireValidSession(c)
      PROVE  ConnectTypes'
  <2>1. call[c].at = "locking" /\ call[c].attempt \in Attempts
    BY <1>4 DEF RequireValidSession, ConnectTypes, Working
  <2>2. CASE Ended(c) /\ UNCHANGED <<rowLock, job>>
             /\ row' \in {row, [row EXCEPT ![call[c].attempt] = "error"]}
    BY <1>4, <2>1, <2>2
       DEF ConnectTypes, ConnectTypeOK, Working, Asking, RequireValidSession, Ended, Unasked
  <2>3. CASE /\ call' = [call EXCEPT ![c].at = "asking"]
             /\ rowLock' = [rowLock EXCEPT ![call[c].attempt] = c]
             /\ job' = [job EXCEPT ![c] = [at |-> "popping", attempt |-> call[c].attempt]]
             /\ UNCHANGED row
    <3>1. UNCHANGED <<cred, file, token, bound, redeemed, late, poll, revoke, health,
                      brokerCrashes>>
      BY <1>4 DEF RequireValidSession
    <3> QED
      BY <2>1, <2>3, <3>1 DEF ConnectTypes, ConnectTypeOK, Working, Asking
  <2> QED
    BY <1>4, <2>2, <2>3 DEF RequireValidSession
<1>5. ASSUME NEW c \in Callbacks, CallbackCommits(c)
      PROVE  ConnectTypes'
  BY <1>5 DEF ConnectTypes, ConnectTypeOK, Working, Asking, CallbackCommits, Ended, Unasked,
              Unlocked, NoRequestInHand
<1>6. ASSUME NEW c \in Callbacks, CallbackFails(c)
      PROVE  ConnectTypes'
  BY <1>6 DEF ConnectTypes, ConnectTypeOK, Working, Asking, CallbackFails, Unasked,
              Unlocked, NoRequestInHand
<1>7. ASSUME NEW c \in Callbacks, RecordsFailure(c)
      PROVE  ConnectTypes'
  BY <1>7 DEF ConnectTypes, ConnectTypeOK, Working, Asking, RecordsFailure, Ended, Unasked
<1>8. ASSUME NEW c \in Callbacks, PopSession(c)
      PROVE  ConnectTypes'
  <2>1. /\ job' \in [Callbacks -> [at : {"idle", "popping", "redeeming", "saving", "found",
                                       "denied"},
                                 attempt : Attempts \cup {Nothing}]]
        /\ \A d \in Callbacks : job'[d].at # "idle" => job'[d].attempt \in Attempts
    BY <1>8, AnswerType, JobGoesOn DEF ConnectTypes, Working, PopSession, NoRequestInHand
  <2> QED
    BY <1>8, <2>1 DEF ConnectTypes, ConnectTypeOK, Working, Asking, PopSession
<1>9. ASSUME NEW c \in Callbacks, Redeem(c)
      PROVE  ConnectTypes'
  <2>1. /\ job' \in [Callbacks -> [at : {"idle", "popping", "redeeming", "saving", "found",
                                       "denied"},
                                 attempt : Attempts \cup {Nothing}]]
        /\ \A d \in Callbacks : job'[d].at # "idle" => job'[d].attempt \in Attempts
    BY <1>9, AnswerType, JobGoesOn DEF ConnectTypes, Working, Redeem, NoRequestInHand
  <2> QED
    BY <1>9, <2>1 DEF ConnectTypes, ConnectTypeOK, Working, Asking, Redeem
<1>10. ASSUME NEW c \in Callbacks, AnswerComplete(c)
      PROVE  ConnectTypes'
  <2>1. /\ job' \in [Callbacks -> [at : {"idle", "popping", "redeeming", "saving", "found",
                                       "denied"},
                                 attempt : Attempts \cup {Nothing}]]
        /\ \A d \in Callbacks : job'[d].at # "idle" => job'[d].attempt \in Attempts
    BY <1>10, AnswerType DEF ConnectTypes, Working, AnswerComplete, NoRequestInHand
  <2> QED
    BY <1>10, <2>1 DEF ConnectTypes, ConnectTypeOK, Working, Asking, AnswerComplete
<1>11. ASSUME NEW c \in Callbacks, NEW k \in Credentials,
              SaveCredential(c, k) \/ BindAccount(c, k)
       PROVE  ConnectTypes'
  <2>1. token' \in [Credentials -> {"none", "live", "revoked"}] /\ bound' \subseteq Credentials
    BY <1>11 DEF ConnectTypes, ConnectTypeOK, SaveCredential, BindAccount
  <2> QED
    BY <1>11, <2>1 DEF ConnectTypes, ConnectTypeOK, Working, Asking, SaveCredential, BindAccount
<1>12. CASE PollExpires \/ \E s \in Attempts : PollReads(s)
  BY <1>12 DEF ConnectTypes, ConnectTypeOK, Working, Asking, PollReads, PollExpires, CallGivenUp
<1>13. ASSUME NEW k \in Credentials, RevocationReads(k) \/ HealthReads(k)
       PROVE  ConnectTypes'
  BY <1>13 DEF ConnectTypes, ConnectTypeOK, Working, Asking, RevocationReads, HealthReads
<1>14. CASE BrokerRevokes \/ RevokeCommits \/ RevokeFails
  BY <1>14 DEF ConnectTypes, ConnectTypeOK, Working, Asking, BrokerRevokes, RevokeCommits,
               RevokeReady, RevokeFails, NoRevoke
<1>15. CASE HealthProbes \/ HealthSaves \/ HealthFails
  <2>1. CASE HealthProbes
    BY <2>1 DEF ConnectTypes, ConnectTypeOK, Working, Asking, HealthProbes
  <2>2. CASE HealthSaves
    BY <2>2 DEF ConnectTypes, ConnectTypeOK, Working, Asking, HealthSaves, NoHealth
  <2>3. CASE HealthFails
    BY <2>3 DEF ConnectTypes, ConnectTypeOK, Working, Asking, HealthFails, NoHealth
  <2> QED
    BY <1>15, <2>1, <2>2, <2>3
<1>16. CASE ApiCrash
  BY <1>16 DEF ConnectTypes, ConnectTypeOK, Working, Asking, ApiCrash, Unasked,
               NoRequestInHand, NoRevoke, NoHealth
<1>17. CASE BrokerCrash
  <2>1. /\ job' \in [Callbacks -> [at : {"idle", "popping", "redeeming", "saving", "found",
                                       "denied"},
                                 attempt : Attempts \cup {Nothing}]]
        /\ \A d \in Callbacks : job'[d].at # "idle" => job'[d].attempt \in Attempts
    BY <1>17 DEF ConnectTypes, ConnectTypeOK, Working, BrokerCrash, NoRequestInHand
  <2>2. /\ call' \in [Callbacks -> [at : {"idle", "locking", "asking", "failed"},
                                  attempt : Attempts \cup {Nothing}, code : BOOLEAN]]
        /\ \A d \in Callbacks : call'[d].at # "idle" => call'[d].attempt \in Attempts
    <3>1. ASSUME NEW d \in Callbacks
          PROVE  /\ call'[d] \in [at : {"idle", "locking", "asking", "failed"},
                                 attempt : Attempts \cup {Nothing}, code : BOOLEAN]
                 /\ call'[d].at # "idle" => call'[d].attempt \in Attempts
      <4>1. call[d] \in [at : {"idle", "locking", "asking", "failed"},
                         attempt : Attempts \cup {Nothing}, code : BOOLEAN]
            /\ (call[d].at # "idle" => call[d].attempt \in Attempts)
        BY DEF ConnectTypes, ConnectTypeOK, Working
      <4>2. \/ call'[d] = call[d] \/ call'[d] = Unasked
            \/ call[d].at = "asking" /\ call'[d] = [call[d] EXCEPT !.at = "failed"]
        BY <1>17 DEF BrokerCrash
      <4>3. CASE call'[d] = Unasked
        BY <4>3 DEF Unasked
      <4>4. CASE call[d].at = "asking" /\ call'[d] = [call[d] EXCEPT !.at = "failed"]
        <5>1. [call[d] EXCEPT !.at = "failed"] =
                  [at |-> "failed", attempt |-> call[d].attempt, code |-> call[d].code]
          BY <4>1
        <5> QED
          BY <4>1, <4>4, <5>1
      <4> QED
        BY <4>1, <4>2, <4>3, <4>4
    <3>2. call' = [d \in Callbacks |-> call'[d]]
      BY <1>17 DEF BrokerCrash
    <3> QED
      BY <3>1, <3>2
  <2>3. rowLock' \in [Attempts -> Callbacks \cup {Nothing}] /\ brokerCrashes' \in 0..MaxBrokerCrashes
    BY <1>17 DEF ConnectTypes, ConnectTypeOK, BrokerCrash
  <2> QED
    BY <1>17, <2>1, <2>2, <2>3 DEF ConnectTypes, ConnectTypeOK, Working, Asking, BrokerCrash
<1> QED
  BY <1>1, <1>2, <1>3, <1>4, <1>5, <1>6, <1>7, <1>8, <1>9, <1>10, <1>11, <1>12, <1>13, <1>14,
     <1>15, <1>16, <1>17
     DEF ConnectNext, CallbackStep, BrokerStep

\* Every variable of the two processes stays well typed.
THEOREM ConnectionTypes == ConnectSpec => []ConnectTypeOK
<1>1. ConnectTypes => ConnectTypeOK
  BY DEF ConnectTypes
<1> QED
  BY <1>1, ConnectInitTypes, ConnectNextTypes, PTL DEF ConnectSpec

-----------------------------------------------------------------------------
(* PlatformConnect: a code serves once, and what is shown is so. *)

\* The claim of the file comes before the code leaves: whoever redeems is alone
\* with the attempt and first, and of a file nobody has claimed no code has left.
ClaimInv ==
    /\ \A s \in Attempts : redeemed[s] <= 1
    /\ \A c \in Callbacks : job[c].at = "redeeming" => redeemed[job[c].attempt] = 0
    /\ \A c, d \in Callbacks :
          job[c].at = "redeeming" /\ job[d].at = "redeeming" /\ job[c].attempt = job[d].attempt
              => c = d
    /\ \A s \in Attempts \ Pasted : file[s] # "consumed" =>
          redeemed[s] = 0 /\ \A c \in Callbacks : job[c].at = "redeeming" => job[c].attempt # s
    /\ \A c \in Callbacks : job[c].at = "popping" => job[c].attempt \notin Pasted
    /\ \A c \in Callbacks : call[c].at = "locking" => call[c].attempt \notin Pasted

\* A callback that waits waits for the job of its attempt, an answer "found" is
\* about files that are there, and nothing is shown of a credential whose file
\* was never written; what is shown, or about to be shown, as revoked is revoked.
ShownInv ==
    /\ \A c \in Callbacks : call[c].at = "asking" =>
          job[c].at # "idle" /\ job[c].attempt = call[c].attempt
    /\ \A c \in Callbacks : job[c].at = "found" => AccountSaved(job[c].attempt)
    /\ \A k \in bound : token[k] # "none"
    /\ \A k \in Credentials : cred[k] # "none" => k \in bound
    /\ \A k \in Credentials : cred[k] = "revoked" => token[k] = "revoked"
    /\ \A s \in Attempts : row[s] = "ok" => \A k \in CredentialsOf(s) : cred[k] # "none"
    /\ revoke.at # "idle" => cred[revoke.of] # "none"
    /\ revoke.at = "told" => token[revoke.of] = "revoked"
    /\ health.at # "idle" =>
          /\ cred[health.of] # "none"
          /\ health.saw = "revoked" => token[health.of] = "revoked"
    /\ health.at = "told" /\ health.probe = "revoked" => token[health.of] = "revoked"

\* At first no file is open, and no code has been used.
LEMMA ConnectInitClaim == ConnectInit => ClaimInv
BY DEF ConnectInit, ClaimInv, NoRequestInHand, Unasked

\* A step that leaves the files and the codes alone, and starts no redemption,
\* keeps the claims.
LEMMA SameClaims ==
    ASSUME ClaimInv, UNCHANGED <<file, redeemed>>,
           \A c \in Callbacks : job'[c].at \in {"popping", "redeeming"} => job'[c] = job[c],
           \A c \in Callbacks : call'[c].at = "locking" => call'[c] = call[c]
    PROVE  ClaimInv'
BY DEF ClaimInv

\* Whoever moves, the code of an attempt leaves once.
LEMMA ConnectNextClaim == ConnectTypes /\ ClaimInv /\ [ConnectNext]_connectVars => ClaimInv'
<1> SUFFICES ASSUME ConnectTypes, ClaimInv, [ConnectNext]_connectVars
             PROVE  ClaimInv'
  OBVIOUS
<1>1. CASE UNCHANGED connectVars
  BY <1>1, SameClaims DEF connectVars
<1>2. ASSUME NEW s \in Attempts, BrokerBegins(s) \/ AttemptStarts(s) \/ TenMinutesPass(s)
      PROVE  ClaimInv'
  <2>1. UNCHANGED <<call, job, redeemed>>
        /\ \A t \in Attempts : file'[t] # "consumed" => file[t] # "consumed"
    BY <1>2 DEF BrokerBegins, AttemptStarts, TenMinutesPass, ConnectTypes, ConnectTypeOK
  <2> QED
    BY <2>1 DEF ClaimInv
<1>3. ASSUME NEW c \in Callbacks, NEW s \in Attempts, NEW code \in BOOLEAN,
             CallbackArrives(c, s, code)
      PROVE  ClaimInv'
  <2>1. CASE s \in Pasted
    <3>1. /\ job' = [job EXCEPT ![c] = [at |-> "redeeming", attempt |-> s]]
          /\ UNCHANGED <<file, redeemed>> /\ redeemed[s] = 0
          /\ \A d \in Callbacks : job[d].attempt # s
          /\ \A d \in Callbacks : call'[d].at = "locking" => call'[d] = call[d]
      BY <1>3, <2>1 DEF CallbackArrives, ConnectTypes, ConnectTypeOK
    <3>2. /\ job'[c].at = "redeeming" /\ job'[c].attempt = s
          /\ \A d \in Callbacks \ {c} : job'[d] = job[d]
      BY <3>1 DEF ConnectTypes, ConnectTypeOK
    <3> QED
      BY <2>1, <3>1, <3>2 DEF ClaimInv
  <2>2. CASE s \notin Pasted
    <3>1. UNCHANGED <<file, redeemed, job>>
          /\ call' = [call EXCEPT ![c] = [at |-> "locking", attempt |-> s, code |-> code]]
      BY <1>3, <2>2 DEF CallbackArrives, ConnectTypes, ConnectTypeOK
    <3>2. /\ \A d \in Callbacks \ {c} : call'[d] = call[d]
          /\ call'[c].attempt = s
      BY <3>1 DEF ConnectTypes, ConnectTypeOK
    <3> QED
      BY <2>2, <3>1, <3>2 DEF ClaimInv
  <2> QED
    BY <2>1, <2>2
<1>4. ASSUME NEW c \in Callbacks, RequireValidSession(c)
      PROVE  ClaimInv'
  <2>0. \A d \in Callbacks : call'[d].at = "locking" => call'[d] = call[d]
    BY <1>4 DEF RequireValidSession, Ended, Unasked, ConnectTypes, ConnectTypeOK
  <2>1. CASE UNCHANGED job
    BY <1>4, <2>0, <2>1, SameClaims DEF RequireValidSession
  <2>2. CASE job' = [job EXCEPT ![c] = [at |-> "popping", attempt |-> call[c].attempt]]
             /\ row[call[c].attempt] = "waiting"
    <3>1. UNCHANGED <<file, redeemed>> /\ call[c].at = "locking"
      BY <1>4 DEF RequireValidSession
    <3>2. /\ job'[c].at = "popping" /\ job'[c].attempt = call[c].attempt
          /\ \A d \in Callbacks \ {c} : job'[d] = job[d]
      BY <2>2 DEF ConnectTypes, ConnectTypeOK
    <3>3. call[c].attempt \notin Pasted
      BY <3>1 DEF ClaimInv
    <3> QED
      BY <2>0, <3>1, <3>2, <3>3 DEF ClaimInv
  <2> QED
    BY <1>4, <2>1, <2>2 DEF RequireValidSession
<1>5. ASSUME NEW c \in Callbacks,
             CallbackCommits(c) \/ CallbackFails(c) \/ RecordsFailure(c)
      PROVE  ClaimInv'
  <2>1. /\ UNCHANGED <<file, redeemed>>
        /\ \A d \in Callbacks : job'[d] = job[d] \/ job'[d] = NoRequestInHand
    BY <1>5 DEF CallbackCommits, CallbackFails, RecordsFailure, ConnectTypes, ConnectTypeOK
  <2>2. \A d \in Callbacks : call'[d].at = "locking" => call'[d] = call[d]
    BY <1>5 DEF CallbackCommits, CallbackFails, RecordsFailure, Ended, Unasked,
                ConnectTypes, ConnectTypeOK
  <2> QED
    BY <2>1, <2>2, SameClaims DEF NoRequestInHand
<1>6. ASSUME NEW c \in Callbacks, PopSession(c)
      PROVE  ClaimInv'
  <2> DEFINE s == job[c].attempt
  <2>1. /\ job[c].at = "popping" /\ s \in Attempts \ Pasted
        /\ file' = [file EXCEPT ![s] = IF @ = "open" THEN "consumed" ELSE @]
        /\ UNCHANGED <<redeemed, call>>
    BY <1>6 DEF PopSession, ConnectTypes, Working, ClaimInv
  <2>2. CASE file[s] = "open" /\ s \notin late
    <3>1. /\ \A d \in Callbacks \ {c} : job'[d] = job[d]
          /\ job'[c].at = "redeeming" /\ job'[c].attempt = s
      BY <1>6, <2>2, JobGoesOn DEF PopSession
    <3>2. file'[s] = "consumed" /\ \A t \in Attempts \ {s} : file'[t] = file[t]
      BY <2>1, <2>2 DEF ConnectTypes, ConnectTypeOK
    <3>3. redeemed[s] = 0 /\ \A d \in Callbacks : job[d].at = "redeeming" => job[d].attempt # s
      BY <2>1, <2>2 DEF ClaimInv
    <3> QED
      BY <2>1, <3>1, <3>2, <3>3 DEF ClaimInv
  <2>3. CASE ~(file[s] = "open" /\ s \notin late)
    <3>1. /\ \A d \in Callbacks \ {c} : job'[d] = job[d]
          /\ job'[c].at \notin {"popping", "redeeming"}
      BY <1>6, <2>1, <2>3, AnswerType DEF PopSession, NoRequestInHand
    <3>2. \A t \in Attempts : file'[t] # "consumed" => file[t] # "consumed"
      BY <2>1 DEF ConnectTypes, ConnectTypeOK
    <3> QED
      BY <2>1, <3>1, <3>2 DEF ClaimInv
  <2> QED
    BY <2>2, <2>3
<1>7. ASSUME NEW c \in Callbacks, Redeem(c)
      PROVE  ClaimInv'
  <2> DEFINE s == job[c].attempt
  <2>1. /\ job[c].at = "redeeming" /\ s \in Attempts /\ redeemed[s] = 0 /\ UNCHANGED <<file, call>>
        /\ redeemed'[s] = 1 /\ \A t \in Attempts \ {s} : redeemed'[t] = redeemed[t]
    BY <1>7 DEF Redeem, ConnectTypes, ConnectTypeOK, Working, ClaimInv
  <2>2. /\ \A d \in Callbacks \ {c} : job'[d] = job[d]
        /\ job'[c].at \notin {"popping", "redeeming"}
    BY <1>7, AnswerType, JobGoesOn DEF Redeem, NoRequestInHand
  <2>3. \A d \in Callbacks \ {c} : job[d].at = "redeeming" => job[d].attempt # s
    BY <2>1 DEF ClaimInv
  <2>4. s \notin Pasted => file[s] = "consumed"
    BY <2>1 DEF ClaimInv
  <2>5. \A t \in Attempts \ Pasted : file[t] # "consumed" => t # s
    BY <2>4
  <2>6. \A d \in Callbacks : job'[d].at \in {"popping", "redeeming"} => d # c /\ job'[d] = job[d]
    BY <2>2
  <2>7. \A t \in Attempts : redeemed'[t] <= 1
    BY <2>1 DEF ClaimInv
  <2>8. \A d \in Callbacks : job'[d].at = "redeeming" => redeemed'[job'[d].attempt] = 0
    BY <2>1, <2>3, <2>6 DEF ClaimInv, ConnectTypes, Working
  <2> HIDE DEF s
  <2> QED
    BY <2>1, <2>5, <2>6, <2>7, <2>8 DEF ClaimInv
<1>8. ASSUME NEW c \in Callbacks, AnswerComplete(c)
      PROVE  ClaimInv'
  <2>1. /\ UNCHANGED <<file, redeemed, call>>
        /\ \A d \in Callbacks \ {c} : job'[d] = job[d]
        /\ job'[c].at \notin {"popping", "redeeming"}
    BY <1>8, AnswerType DEF AnswerComplete, NoRequestInHand
  <2> QED
    BY <2>1, SameClaims
<1>9. CASE \/ \E c \in Callbacks, k \in Credentials : SaveCredential(c, k) \/ BindAccount(c, k)
           \/ (\E s \in Attempts : PollReads(s)) \/ PollExpires
           \/ \E k \in Credentials : RevocationReads(k) \/ HealthReads(k)
           \/ BrokerRevokes \/ RevokeCommits \/ RevokeFails
           \/ HealthProbes \/ HealthSaves \/ HealthFails
  <2>1. UNCHANGED <<file, redeemed, job, call>>
    BY <1>9 DEF SaveCredential, BindAccount, PollReads, PollExpires, RevocationReads,
                HealthReads, BrokerRevokes, RevokeCommits, RevokeFails, HealthProbes,
                HealthSaves, HealthFails
  <2> QED
    BY <2>1, SameClaims
<1>10. CASE ApiCrash \/ BrokerCrash
  <2>1. /\ UNCHANGED <<file, redeemed>>
        /\ \A d \in Callbacks : job'[d] = job[d] \/ job'[d] = NoRequestInHand
    BY <1>10 DEF ApiCrash, BrokerCrash
  <2>2. \A d \in Callbacks : call'[d].at = "locking" => call'[d] = call[d]
    BY <1>10 DEF ApiCrash, BrokerCrash, Unasked, ConnectTypes, ConnectTypeOK
  <2> QED
    BY <2>1, <2>2, SameClaims DEF NoRequestInHand
<1> QED
  BY <1>1, <1>2, <1>3, <1>4, <1>5, <1>6, <1>7, <1>8, <1>9, <1>10
     DEF ConnectNext, CallbackStep, BrokerStep

\* At first nothing is shown.
LEMMA ConnectInitShown == ConnectInit => ShownInv
BY DEF ConnectInit, ShownInv, Unasked, NoRequestInHand, NoRevoke, NoHealth, Credentials,
       CredentialsOf

\* What is shown stays true as long as the rows, the files and those who are
\* about to write a row stay as they are, and callbacks only end.
LEMMA SameShown ==
    ASSUME ShownInv, UNCHANGED <<cred, token, bound>>,
           revoke' = revoke \/ revoke' = NoRevoke, health' = health \/ health' = NoHealth,
           \A s \in Attempts : row'[s] = "ok" => row[s] = "ok",
           \A c \in Callbacks : job'[c].at = "found" => job'[c] = job[c],
           \A c \in Callbacks : call'[c].at = "asking" => call'[c] = call[c] /\ job'[c] = job[c]
    PROVE  ShownInv'
BY DEF ShownInv, AccountSaved, NoRevoke, NoHealth

\* A callback that is not asking hides nothing: its job is nobody's.
LEMMA JobShown ==
    ASSUME ConnectTypes, ShownInv, NEW c \in Callbacks,
           UNCHANGED <<row, call, cred, token, bound, revoke, health>>,
           \A d \in Callbacks \ {c} : job'[d] = job[d],
           \/ job'[c] = NoRequestInHand /\ Abandoned(c)
           \/ /\ job'[c].attempt = job[c].attempt /\ job'[c].at # "idle"
              /\ job'[c].at = "found" => AccountSaved(job[c].attempt)
    PROVE  ShownInv'
BY DEF ShownInv, AccountSaved, NoRequestInHand, Abandoned

\* Whoever moves, what is shown is so.
LEMMA ConnectNextShown == ConnectTypes /\ ShownInv /\ [ConnectNext]_connectVars => ShownInv'
<1> SUFFICES ASSUME ConnectTypes, ShownInv, [ConnectNext]_connectVars
             PROVE  ShownInv'
  OBVIOUS
<1>1. CASE UNCHANGED connectVars
  BY <1>1, SameShown DEF connectVars
<1>2. ASSUME NEW s \in Attempts, BrokerBegins(s) \/ AttemptStarts(s) \/ TenMinutesPass(s)
      PROVE  ShownInv'
  <2>1. UNCHANGED <<cred, token, bound, revoke, health, job, call>>
        /\ \A t \in Attempts : row'[t] = "ok" => row[t] = "ok"
    BY <1>2 DEF BrokerBegins, AttemptStarts, TenMinutesPass, ConnectTypes, ConnectTypeOK
  <2> QED
    BY <2>1, SameShown
<1>3. ASSUME NEW c \in Callbacks, NEW s \in Attempts, NEW code \in BOOLEAN,
             CallbackArrives(c, s, code)
      PROVE  ShownInv'
  <2>1. UNCHANGED <<row, cred, token, bound, revoke, health>>
        /\ \A d \in Callbacks \ {c} : job'[d] = job[d] /\ call'[d] = call[d]
    BY <1>3 DEF CallbackArrives, ConnectTypes, ConnectTypeOK
  <2>2. /\ job'[c].at # "found"
        /\ call'[c].at = "asking" => job'[c].at = "redeeming" /\ job'[c].attempt = call'[c].attempt
    BY <1>3 DEF CallbackArrives, ConnectTypes, ConnectTypeOK, NoRequestInHand
  <2> QED
    BY <2>1, <2>2 DEF ShownInv, AccountSaved
<1>4. ASSUME NEW c \in Callbacks, RequireValidSession(c)
      PROVE  ShownInv'
  <2>1. UNCHANGED <<cred, token, bound, revoke, health>>
        /\ \A d \in Callbacks \ {c} : job'[d] = job[d] /\ call'[d] = call[d]
    BY <1>4 DEF RequireValidSession, Ended, ConnectTypes, ConnectTypeOK
  <2>2. \A t \in Attempts : row'[t] = "ok" => row[t] = "ok"
    BY <1>4 DEF RequireValidSession, ConnectTypes, ConnectTypeOK
  <2>3. CASE Ended(c) /\ UNCHANGED job
    <3>1. call'[c].at # "asking"
      BY <2>3 DEF Ended, Unasked, ConnectTypes, ConnectTypeOK
    <3> QED
      BY <2>1, <2>2, <2>3, <3>1, SameShown
  <2>4. CASE /\ call' = [call EXCEPT ![c].at = "asking"]
             /\ job' = [job EXCEPT ![c] = [at |-> "popping", attempt |-> call[c].attempt]]
             /\ UNCHANGED row
    <3>1. job'[c].at = "popping" /\ job'[c].attempt = call'[c].attempt
      BY <2>4 DEF ConnectTypes, ConnectTypeOK
    <3> QED
      BY <2>1, <2>2, <3>1 DEF ShownInv, AccountSaved
  <2> QED
    BY <1>4, <2>3, <2>4 DEF RequireValidSession
<1>5. ASSUME NEW c \in Callbacks, CallbackCommits(c)
      PROVE  ShownInv'
  <2> DEFINE s == call[c].attempt
  <2>1. /\ call[c].at = "asking" /\ s \in Attempts /\ job[c].attempt = s
        /\ UNCHANGED <<token, bound, revoke, health>>
        /\ \A d \in Callbacks \ {c} : job'[d] = job[d] /\ call'[d] = call[d]
        /\ job'[c] = NoRequestInHand /\ call'[c] = Unasked
    BY <1>5 DEF CallbackCommits, Ended, ConnectTypes, ConnectTypeOK, Working, ShownInv
  <2>2. CASE job[c].at = "found" /\ Admits(s)
    <3>1. AccountSaved(s)
      BY <2>1, <2>2 DEF ShownInv
    <3>2. cred' = [k \in Credentials |-> IF k \in CredentialsOf(s) THEN "connected" ELSE cred[k]]
      BY <1>5, <2>2 DEF CallbackCommits
    <3>3. \A t \in Attempts : row'[t] = "ok" => row[t] = "ok" \/ t = s
      BY <1>5, <2>1 DEF CallbackCommits, ConnectTypes, ConnectTypeOK
    <3>4. \A k \in Credentials : /\ cred'[k] # "none" => k \in bound
                                 /\ cred'[k] = "revoked" => cred[k] = "revoked"
                                 /\ cred[k] # "none" => cred'[k] # "none"
                                 /\ k \in CredentialsOf(s) => cred'[k] # "none"
      BY <3>1, <3>2 DEF ShownInv, AccountSaved
    <3>5. CredentialsOf(s) \subseteq Credentials
      BY <2>1, CredentialsOfOne
    <3>6. \A t \in Attempts : row'[t] = "ok" => \A k \in CredentialsOf(t) : cred'[k] # "none"
      BY <3>3, <3>4, <3>5, CredentialsOfOne DEF ShownInv
    <3>7. /\ revoke'.at # "idle" => cred'[revoke'.of] # "none"
          /\ health'.at # "idle" => cred'[health'.of] # "none"
      BY <2>1, <3>4 DEF ShownInv, ConnectTypes, Asking
    <3> HIDE DEF s
    <3> QED
      BY <2>1, <3>4, <3>6, <3>7 DEF ShownInv, AccountSaved, Unasked, NoRequestInHand
  <2>3. CASE ~(job[c].at = "found" /\ Admits(s))
    <3>1. cred' = [k \in Credentials |-> cred[k]]
      BY <1>5, <2>3 DEF CallbackCommits
    <3>2. UNCHANGED cred
      BY <3>1 DEF ConnectTypes, ConnectTypeOK
    <3>3. \A t \in Attempts : row'[t] = "ok" => row[t] = "ok"
      BY <1>5, <2>3 DEF CallbackCommits, ConnectTypes, ConnectTypeOK
    <3> QED
      BY <2>1, <3>2, <3>3, SameShown DEF Unasked, NoRequestInHand
  <2> QED
    BY <2>2, <2>3
<1>6. ASSUME NEW c \in Callbacks, CallbackFails(c) \/ RecordsFailure(c)
      PROVE  ShownInv'
  <2>1. /\ UNCHANGED <<cred, token, bound, revoke, health>>
        /\ \A d \in Callbacks \ {c} : job'[d] = job[d] /\ call'[d] = call[d]
        /\ \A t \in Attempts : row'[t] = "ok" => row[t] = "ok"
        /\ job'[c] = job[c] \/ job'[c] = NoRequestInHand
    BY <1>6 DEF CallbackFails, RecordsFailure, Ended, ConnectTypes, ConnectTypeOK
  <2>2. call'[c].at # "asking"
    BY <1>6 DEF CallbackFails, RecordsFailure, Ended, ConnectTypes, ConnectTypeOK, Unasked
  <2> QED
    BY <2>1, <2>2, SameShown DEF NoRequestInHand
<1>7. ASSUME NEW c \in Callbacks, PopSession(c) \/ Redeem(c) \/ AnswerComplete(c)
      PROVE  ShownInv'
  <2>1. UNCHANGED <<row, call, cred, token, bound, revoke, health>> /\ job[c].at # "idle"
    BY <1>7 DEF PopSession, Redeem, AnswerComplete
  <2> DEFINE GoesOn == \E at \in {"redeeming", "saving"} : job' = [job EXCEPT ![c].at = at]
             Tells == \E at \in {"denied", "found"} :
                 CallAnswered(c, at) /\ (at = "found" => AccountSaved(job[c].attempt))
  <2>2. GoesOn \/ Tells
    BY <1>7 DEF PopSession, Redeem, AnswerComplete
  <2>3. CASE GoesOn
    <3>1. /\ \A d \in Callbacks \ {c} : job'[d] = job[d]
          /\ job'[c].at \in {"redeeming", "saving"} /\ job'[c].attempt = job[c].attempt
      BY <2>3, JobGoesOn
    <3> QED
      BY <2>1, <3>1, JobShown
  <2>4. CASE Tells
    <3>1. PICK at \in {"denied", "found"} :
              CallAnswered(c, at) /\ (at = "found" => AccountSaved(job[c].attempt))
      BY <2>4
    <3>2. CASE Abandoned(c)
      <4>1. /\ \A d \in Callbacks \ {c} : job'[d] = job[d]
            /\ job'[c] = NoRequestInHand
        BY <3>1, <3>2 DEF CallAnswered, ConnectTypes, ConnectTypeOK
      <4> QED
        BY <2>1, <3>2, <4>1, JobShown
    <3>3. CASE ~Abandoned(c)
      <4>1. /\ \A d \in Callbacks \ {c} : job'[d] = job[d]
            /\ job'[c].at = at /\ job'[c].attempt = job[c].attempt
        BY <3>1, <3>3 DEF CallAnswered, ConnectTypes, ConnectTypeOK
      <4> QED
        BY <2>1, <3>1, <4>1, JobShown
    <3> QED
      BY <3>2, <3>3
  <2> HIDE DEF GoesOn, Tells
  <2> QED
    BY <2>2, <2>3, <2>4
<1>8. ASSUME NEW c \in Callbacks, NEW k \in Credentials, SaveCredential(c, k)
      PROVE  ShownInv'
  <2>1. /\ UNCHANGED <<row, call, job, cred, bound, revoke, health>>
        /\ token[k] = "none" /\ token'[k] = "live"
        /\ \A other \in Credentials \ {k} : token'[other] = token[other]
    BY <1>8 DEF SaveCredential, ConnectTypes, ConnectTypeOK
  <2>2. bound \subseteq Credentials
    BY DEF ConnectTypes, ConnectTypeOK
  <2>3. /\ revoke.at = "told" => revoke.of \in Credentials
        /\ health.at # "idle" => health.of \in Credentials
        /\ health.at = "told" => health.of \in Credentials
    BY DEF ConnectTypes, Asking
  <2> QED
    BY <2>1, <2>2, <2>3 DEF ShownInv, AccountSaved
<1>9. ASSUME NEW c \in Callbacks, NEW k \in Credentials, BindAccount(c, k)
      PROVE  ShownInv'
  BY <1>9 DEF BindAccount, ShownInv, AccountSaved
<1>10. CASE PollExpires \/ \E s \in Attempts : PollReads(s)
  <2>1. UNCHANGED <<cred, token, bound, revoke, health, job, call>>
        /\ \A t \in Attempts : row'[t] = "ok" => row[t] = "ok"
    BY <1>10 DEF PollReads, PollExpires, CallGivenUp, ConnectTypes, ConnectTypeOK
  <2> QED
    BY <2>1, SameShown
<1>11. ASSUME NEW k \in Credentials, RevocationReads(k) \/ HealthReads(k)
       PROVE  ShownInv'
  BY <1>11 DEF RevocationReads, HealthReads, ShownInv, AccountSaved
<1>12. CASE BrokerRevokes
  <2>1. revoke.of \in Credentials /\ cred[revoke.of] # "none" /\ token[revoke.of] # "none"
    BY <1>12 DEF BrokerRevokes, ShownInv, ConnectTypes, Asking
  <2>2. /\ UNCHANGED <<row, call, job, cred, bound, health>>
        /\ token'[revoke.of] = "revoked"
        /\ \A k \in Credentials \ {revoke.of} : token'[k] = token[k]
        /\ revoke'.of = revoke.of
    BY <1>12, <2>1 DEF BrokerRevokes, ConnectTypes, ConnectTypeOK
  <2>3. bound \subseteq Credentials /\ (health.at # "idle" => health.of \in Credentials)
        /\ (health.at = "told" => health.of \in Credentials)
    BY DEF ConnectTypes, ConnectTypeOK, Asking
  <2> QED
    BY <2>1, <2>2, <2>3 DEF ShownInv, AccountSaved
<1>13. CASE RevokeCommits \/ HealthSaves
  <2>1. /\ UNCHANGED <<row, call, job, token, bound>>
        /\ \/ revoke' = revoke /\ health' = NoHealth
           \/ revoke' = NoRevoke /\ health' = health
    BY <1>13 DEF RevokeCommits, HealthSaves
  <2>2. \A k \in Credentials : /\ cred'[k] # "none" => k \in bound
                               /\ cred'[k] = "revoked" => token[k] = "revoked"
                               /\ cred[k] # "none" => cred'[k] # "none"
    <3>1. CASE RevokeCommits
      BY <3>1 DEF RevokeCommits, RevokeReady, ConnectTypes, ConnectTypeOK, Asking, ShownInv
    <3>2. CASE HealthSaves
      BY <3>2 DEF HealthSaves, ConnectTypes, ConnectTypeOK, Asking, ShownInv
    <3> QED
      BY <1>13, <3>1, <3>2
  <2>3. \A s \in Attempts : row[s] = "ok" => \A k \in CredentialsOf(s) : cred'[k] # "none"
    BY <2>2, CredentialsOfOne DEF ShownInv
  <2>4. /\ revoke'.at # "idle" => revoke'.of \in Credentials /\ cred'[revoke'.of] # "none"
        /\ health'.at # "idle" => health'.of \in Credentials /\ cred'[health'.of] # "none"
    BY <2>1, <2>2 DEF ShownInv, ConnectTypes, Asking, NoRevoke, NoHealth
  <2> QED
    BY <2>1, <2>2, <2>3, <2>4 DEF ShownInv, AccountSaved, NoRevoke, NoHealth
<1>14. CASE RevokeFails \/ HealthFails
  <2>1. UNCHANGED <<row, call, job, cred, token, bound>>
        /\ (revoke' = revoke \/ revoke' = NoRevoke) /\ (health' = health \/ health' = NoHealth)
    BY <1>14 DEF RevokeFails, HealthFails
  <2> QED
    BY <2>1, SameShown
<1>15. CASE HealthProbes
  <2>1. health.of \in Credentials /\ token[health.of] \in {"none", "live", "revoked"}
        /\ token[health.of] # "none"
    BY <1>15 DEF HealthProbes, ShownInv, ConnectTypes, ConnectTypeOK, Asking
  <2>2. /\ UNCHANGED <<row, call, job, cred, token, bound, revoke>>
        /\ health'.of = health.of /\ health'.saw = health.saw /\ health.at # "idle"
        /\ health'.probe = "revoked" => token[health.of] # "live"
    BY <1>15 DEF HealthProbes, ConnectTypes, ConnectTypeOK
  <2> QED
    BY <2>1, <2>2 DEF ShownInv, AccountSaved
<1>16. CASE ApiCrash \/ BrokerCrash
  <2>1. /\ UNCHANGED <<row, cred, token, bound>>
        /\ (revoke' = revoke \/ revoke' = NoRevoke) /\ (health' = health \/ health' = NoHealth)
        /\ \A d \in Callbacks : job'[d] = job[d] \/ job'[d] = NoRequestInHand
    BY <1>16 DEF ApiCrash, BrokerCrash
  <2>2. \A d \in Callbacks : call'[d].at = "asking" => call'[d] = call[d] /\ job'[d] = job[d]
    BY <1>16 DEF ApiCrash, BrokerCrash, Unasked, ConnectTypes, ConnectTypeOK
  <2> QED
    BY <2>1, <2>2, SameShown DEF NoRequestInHand
<1> QED
  BY <1>1, <1>2, <1>3, <1>4, <1>5, <1>6, <1>7, <1>8, <1>9, <1>10, <1>11, <1>12, <1>13, <1>14,
     <1>15, <1>16
     DEF ConnectNext, CallbackStep, BrokerStep

\* However often the provider's redirect comes, and whoever dies in between, the
\* code of an attempt goes to the provider at most once; and what ads-api says of
\* an attempt and of its credentials is what the broker's files say, over every
\* lost answer, revocation and health check.
THEOREM ConnectionHolds == ConnectSpec => []ConnectionIsSound
<1>1. ConnectInit => ConnectTypes /\ ClaimInv /\ ShownInv
  BY ConnectInitTypes, ConnectInitClaim, ConnectInitShown
<1>2. ConnectTypes /\ ClaimInv /\ ShownInv /\ [ConnectNext]_connectVars
          => (ConnectTypes /\ ClaimInv /\ ShownInv)'
  BY ConnectNextTypes, ConnectNextClaim, ConnectNextShown
<1>3. ConnectTypes /\ ClaimInv /\ ShownInv => ConnectionIsSound
  <2> SUFFICES ASSUME ConnectTypes, ClaimInv, ShownInv PROVE ConnectionIsSound
    OBVIOUS
  <2>1. CodeRedeemedOnce
    BY DEF ClaimInv, CodeRedeemedOnce
  <2>2. OkMeansConnected /\ RevokedIsUnusable
    BY CredentialsOfOne DEF ShownInv, OkMeansConnected, RevokedIsUnusable
  <2> QED
    BY <2>1, <2>2 DEF ConnectionIsSound
<1> QED
  BY <1>1, <1>2, <1>3, PTL DEF ConnectSpec

-----------------------------------------------------------------------------
(* The four doors together. *)

\* Every variable of the four keeps its type where they are together (TypesOK),
\* for any size of each: none touches another's.
THEOREM AccessTypes == AccessSpec => []TypesOK
<1> DEFINE IInv == CapsTypeOK /\ OAuthTypeOK /\ TrustInv /\ SessionTypeOK /\ ConnectTypes
<1>1. AccessInit => IInv
  BY CapsInitTypeOK, OAuthInitInv, SessionInitTypeOK, ConnectInitTypes DEF AccessInit
<1>2. ASSUME IInv, [AccessNext]_AccessVars PROVE IInv'
  <2>1. /\ [CapsNext]_capsVars /\ [OAuthNext]_oauthVars
        /\ [SessionNext]_sessionVars /\ [ConnectNext]_connectVars
    BY <1>2 DEF AccessNext, AccessVars
  <2> QED
    BY <1>2, <2>1, CapsNextTypeOK, OAuthNextTypeOK, OAuthNextTrust, SessionNextTypeOK,
       ConnectNextTypes
<1>3. IInv => TypesOK
  BY DEF TypesOK, ConnectTypes
<1> QED
  BY <1>1, <1>2, <1>3, PTL DEF AccessSpec
=============================================================================
