-------------------------- MODULE Decisions_proofs --------------------------
(***************************************************************************)
(* The theorems of ProposalLifecycle, RuntimeJobs and AuditChain, what the *)
(* owner decides on, what drafts it and the log of it: for any handlers,   *)
(* values, bridges, leases, plans and transactions, and any losses and     *)
(* harm. The three share no variable; each has its types, its inductive    *)
(* invariants, one step at a time, and its theorems.                       *)
(***************************************************************************)
EXTENDS MCDecisions, SequenceTheorems, WellFoundedInduction, TLAPS

-----------------------------------------------------------------------------
(* ProposalLifecycle: types. *)

\* What the handlers and the worker have in hand and what was sent, as the row
\* tells it: a copy in a state only an execution reaches is a copy of this row,
\* the worker goes to the gates with a row nobody has begun, and what it sends
\* and awaits is the row's own value, sent once.
CopyIsTrue(target) ==
    /\ row.state \in Begun /\ row.value = target.value
    /\ target.state # "executing" => row.state = target.state
CopiesInv ==
    \A c \in Clerks :
        clerks[c] # Idle =>
            /\ clerks[c].target.state \in Begun => CopyIsTrue(clerks[c].target)
            /\ clerks[c].why = "approve" => clerks[c].target.state = "scheduled"
WorkInv ==
    work # Idle =>
        /\ work.held.value = work.attempt
        /\ work.why \in {"gates", "cleared"} => row.state \notin Begun
        /\ work.why \in {"sending", "waiting"} =>
               row.state = "executing" /\ row.value = work.held.value
SentInv ==
    \A v \in Values :
        sent[v] # 0 =>
            sent[v] = 1 /\ row.state \in Begun /\ row.value = v /\ work.why # "sending"
UndoneInv == restored = IF undone THEN 1 ELSE 0

LifeInv == CopiesInv /\ WorkInv /\ SentInv

\* The trigger lets a begun row end, and begins none but a scheduled one.
LEMMA AdmitsTheEnd ==
    ASSUME NEW old \in ProposalRow, NEW new \in ProposalRow, Admits(old, new)
    PROVE  /\ old.state \in Begun =>
                  \/ new.state = old.state
                  \/ old.state = "executing" /\ new.state \in {"executed", "failed"}
           /\ new.state \in Begun /\ old.state \notin Begun =>
                  new.state = "executing" /\ old.state = "scheduled"
<1>1. CASE new.state = old.state
  BY <1>1
<1>2. CASE new.state \in AllowedFrom(old.state)
  <2>1. old.state \in {"absent", "executing", "pending", "postponed", "scheduled", "rejected",
                       "expired", "invalidated", "executed", "failed"}
    BY DEF ProposalRow, Live, Final
  <2> QED
    BY <1>2, <2>1 DEF AllowedFrom, Begun
<1>3. CASE Reopens(old, new)
  BY <1>3 DEF Reopens, Begun
<1> QED
  BY <1>1, <1>2, <1>3 DEF Admits

\* A copy of a row in another state is a row, with its value.
LEMMA RowCopied ==
    ASSUME NEW copy \in ProposalRow, NEW state \in {"absent", "executing"} \cup Live \cup Final
    PROVE  LET new == [copy EXCEPT !.state = state]
           IN  new \in ProposalRow /\ new.state = state /\ new.value = copy.value
BY DEF ProposalRow

\* So is a copy in another state with another value.
LEMMA RowEdited ==
    ASSUME NEW copy \in ProposalRow, NEW state \in {"absent", "executing"} \cup Live \cup Final,
           NEW v \in Values
    PROVE  LET new == [copy EXCEPT !.state = state, !.value = v]
           IN  new \in ProposalRow /\ new.state = state
BY DEF ProposalRow

\* The names of the states that the code gives a row.
LEMMA RowStates ==
    {"absent", "executing", "pending", "postponed", "scheduled", "rejected", "expired",
     "invalidated", "executed", "failed"} = {"absent", "executing"} \cup Live \cup Final
BY DEF Live, Final

\* A handler that reads the row ends, or means to save a row.
ReadsRow(c) ==
    \/ \E v \in Values : ProposeReads(c, v) \/ EditReads(c, v)
    \/ NoteReads(c) \/ PostponeReads(c) \/ TurnDownReads(c) \/ ApproveReads(c)
    \/ \E k \in Cards : TapReads(c, k)
    \/ TapRereads(c) \/ UndoReads(c)

\* What a handler has in hand when it has read: a row, which is the row itself
\* if an execution has begun, and a scheduled one if it approves.
LEMMA ReadsWhatIsThere ==
    ASSUME ProposalTypeOK, CopiesInv, NEW c \in Clerks, ReadsRow(c)
    PROVE  \/ UNCHANGED clerks
           \/ \E state \in ClerkState :
                 /\ clerks' = [clerks EXCEPT ![c] = state]
                 /\ state # Idle =>
                       /\ state.target.state \in Begun => CopyIsTrue(state.target)
                       /\ state.why = "approve" => state.target.state = "scheduled"
<1>0. row \in ProposalRow /\ clerks[c] \in ClerkState /\ clerks \in [Clerks -> ClerkState]
      /\ past \in 0..MaxExpiry /\ MaxExpiry \in Nat
  BY ProposalAssumption DEF ProposalTypeOK
<1>1. ASSUME NEW why \in {"propose", "edit", "note", "postpone", "turn_down", "approve", "undo"},
             NEW target \in ProposalRow, Means(c, why, target),
             target.state \in Begun => target = row,
             why = "approve" => target.state = "scheduled"
      PROVE  \E state \in ClerkState :
                 /\ clerks' = [clerks EXCEPT ![c] = state]
                 /\ state # Idle =>
                       /\ state.target.state \in Begun => CopyIsTrue(state.target)
                       /\ state.why = "approve" => state.target.state = "scheduled"
  <2> DEFINE state == [why |-> why, target |-> target, card |-> Nobody]
  <2>1. state \in ClerkState /\ state.target = target /\ state.why = why
    BY <1>1 DEF ClerkState
  <2>2. target.state \in Begun => CopyIsTrue(target)
    BY <1>1 DEF CopyIsTrue
  <2>3. clerks' = [clerks EXCEPT ![c] = state]
    BY <1>1 DEF Means
  <2> HIDE DEF state
  <2> QED
    BY <1>1, <2>1, <2>2, <2>3
<1>2. ASSUME NEW v \in Values, ProposeReads(c, v)
      PROVE  \E target \in ProposalRow : Means(c, "propose", target) /\ target.state \notin Begun
  <2> DEFINE target == [state |-> "pending", value |-> v, expires |-> past + 1]
  <2>1. past + 1 \in 1..MaxExpiry
    BY <1>0, <1>2 DEF ProposeReads
  <2>2. target \in ProposalRow
    BY <2>1, RowStates DEF ProposalRow
  <2>3. Means(c, "propose", target) /\ target.state \notin Begun
    BY <1>2 DEF ProposeReads, Begun
  <2> QED
    BY <2>2, <2>3
<1>3. ASSUME NEW v \in Values, EditReads(c, v)
      PROVE  \E target \in ProposalRow : Means(c, "edit", target) /\ target.state \notin Begun
  <2> DEFINE target == [row EXCEPT !.state = "pending", !.value = v]
  <2>1. target \in ProposalRow /\ target.state = "pending"
    BY <1>0, RowEdited, RowStates
  <2>2. Means(c, "edit", target)
    BY <1>3 DEF EditReads
  <2> QED
    BY <2>1, <2>2 DEF Begun
<1>4. ASSUME PostponeReads(c) \/ TurnDownReads(c) \/ ApproveReads(c)
      PROVE  \E why \in {"postpone", "turn_down", "approve"}, target \in ProposalRow :
                /\ Means(c, why, target) /\ target.state \notin Begun
                /\ why = "approve" => target.state = "scheduled"
  <2>1. PICK why \in {"postpone", "turn_down", "approve"},
             state \in {"postponed", "rejected", "invalidated", "scheduled"} :
            /\ Means(c, why, [row EXCEPT !.state = state])
            /\ why = "approve" => state = "scheduled"
    BY <1>4 DEF PostponeReads, TurnDownReads, ApproveReads, Approved
  <2>2. /\ [row EXCEPT !.state = state] \in ProposalRow
        /\ [row EXCEPT !.state = state].state = state
    BY <1>0, RowCopied, RowStates
  <2> QED
    BY <2>1, <2>2 DEF Begun
<1>5. ASSUME NoteReads(c) \/ UndoReads(c)
      PROVE  \E why \in {"note", "undo"} : Means(c, why, row)
  BY <1>5 DEF NoteReads, UndoReads
<1>6. ASSUME NEW k \in Cards, TapReads(c, k)
      PROVE  \/ UNCHANGED clerks
             \/ \E state \in ClerkState :
                   /\ clerks' = [clerks EXCEPT ![c] = state]
                   /\ state.target = row /\ state.why = "tap"
  <2> DEFINE state == [why |-> "tap", target |-> row, card |-> k]
  <2>1. state \in ClerkState /\ state.target = row /\ state.why = "tap"
    BY <1>0 DEF ClerkState
  <2>2. UNCHANGED clerks \/ clerks' = [clerks EXCEPT ![c] = state]
    BY <1>6 DEF TapReads
  <2> QED
    BY <2>1, <2>2
<1>7. ASSUME TapRereads(c)
      PROVE  \E state \in ClerkState :
                /\ clerks' = [clerks EXCEPT ![c] = state]
                /\ state = Idle \/ state.target.state = "scheduled"
  <2>1. CASE row.state = "pending" /\ ~Overdue(row)
    <3> DEFINE target == Approved(row)
               state == [clerks[c] EXCEPT !.why = "approve", !.target = target]
    <3>1. target \in ProposalRow /\ target.state = "scheduled"
      BY <1>0, RowCopied, RowStates DEF Approved
    <3>2. clerks[c] \in [why : {"propose", "edit", "note", "postpone", "turn_down", "tap", "approve",
                                "undo"},
                         target : ProposalRow, card : Cards \cup {Nobody}]
      BY <1>0, <1>7 DEF TapRereads, ClerkState, Idle
    <3>3. clerks' = [clerks EXCEPT ![c] = state]
      BY <1>7, <2>1 DEF TapRereads
    <3> HIDE DEF target
    <3>4. state \in ClerkState /\ state.target = target
      BY <3>1, <3>2 DEF ClerkState
    <3> HIDE DEF state
    <3> QED
      BY <3>1, <3>3, <3>4
  <2>2. CASE ~(row.state = "pending" /\ ~Overdue(row))
    BY <1>7, <2>2 DEF TapRereads, Ends, ClerkState
  <2> QED
    BY <2>1, <2>2
<1>8. CASE \E v \in Values : ProposeReads(c, v) \/ EditReads(c, v)
  BY <1>1, <1>2, <1>3, <1>8
<1>9. CASE PostponeReads(c) \/ TurnDownReads(c) \/ ApproveReads(c)
  <2>1. PICK why \in {"postpone", "turn_down", "approve"}, target \in ProposalRow :
                /\ Means(c, why, target) /\ target.state \notin Begun
                /\ why = "approve" => target.state = "scheduled"
    BY <1>4, <1>9
  <2> QED
    BY <1>1, <2>1
<1>10. CASE NoteReads(c) \/ UndoReads(c)
  <2>1. PICK why \in {"note", "undo"} : Means(c, why, row)
    BY <1>5, <1>10
  <2> QED
    BY <1>0, <1>1, <2>1
<1>11. CASE \E k \in Cards : TapReads(c, k)
  BY <1>6, <1>11 DEF CopyIsTrue
<1>12. CASE TapRereads(c)
  BY <1>7, <1>12 DEF Begun
<1> QED
  BY <1>8, <1>9, <1>10, <1>11, <1>12 DEF ReadsRow

-----------------------------------------------------------------------------
(* ProposalLifecycle: the steps. *)

\* At first there is no row, no handler has read one and nothing was sent.
LEMMA ProposalInitInv == ProposalInit => ProposalTypeOK /\ LifeInv /\ UndoneInv
<1> SUFFICES ASSUME ProposalInit PROVE ProposalTypeOK /\ LifeInv /\ UndoneInv
  OBVIOUS
<1>1. MaxExpiry \in Nat \ {0} /\ row \in ProposalRow
  BY ProposalAssumption, RowStates DEF ProposalInit, ProposalRow
<1>2. ProposalTypeOK
  <2>1. /\ clerks \in [Clerks -> ClerkState] /\ lock \in Clerks \cup {Worker, Nobody}
        /\ attempts \in [Values -> Unresolved \cup {"none", "claimed", "executed", "failed"}]
        /\ work \in WorkState
    BY DEF ProposalInit, ClerkState, WorkState
  <2>2. /\ past \in 0..MaxExpiry /\ sent \in [Values -> Nat] /\ applied \subseteq Values
        /\ restored \in Nat
    BY <1>1 DEF ProposalInit
  <2>4. undone \in BOOLEAN
    BY DEF ProposalInit
  <2>3. cards \in [Cards -> [state : {"absent", "posted", "held", "used"},
                            value : Values \cup {Nobody}]]
    BY DEF ProposalInit
  <2> QED
    BY <1>1, <2>1, <2>2, <2>3, <2>4 DEF ProposalTypeOK
<1>3. LifeInv /\ UndoneInv
  BY DEF ProposalInit, LifeInv, CopiesInv, WorkInv, SentInv, UndoneInv, Idle
<1> QED
  BY <1>2, <1>3

\* A save of a handler, or an expiry: an execution that has begun keeps its row,
\* and one that has not is not begun by it.
LEMMA RowSaved ==
    ASSUME ProposalTypeOK, LifeInv, NEW c \in Clerks,
           clerks' \in {clerks, [clerks EXCEPT ![c] = Idle]},
           UNCHANGED <<work, sent>>,
           row.state \notin Begun => row'.state \notin Begun,
           row.state \in Begun => row'.state = row.state /\ row'.value = row.value
    PROVE  LifeInv'
<1>1. ASSUME NEW d \in Clerks, clerks'[d] # Idle
      PROVE  clerks'[d] = clerks[d]
  BY <1>1 DEF ProposalTypeOK
<1>2. CopiesInv'
  BY <1>1 DEF LifeInv, CopiesInv, CopyIsTrue
<1>3. WorkInv'
  BY DEF LifeInv, WorkInv, Begun
<1>4. SentInv'
  BY DEF LifeInv, SentInv
<1> QED
  BY <1>2, <1>3, <1>4 DEF LifeInv

\* What SavesRow writes over the row.
LEMMA SaveKeepsTheBegun ==
    ASSUME ProposalTypeOK, CopiesInv, NEW c \in Clerks, clerks[c] # Idle,
           NEW new, new = IF Admits(row, clerks[c].target) THEN clerks[c].target ELSE row
    PROVE  /\ new \in ProposalRow
           /\ row.state \notin Begun => new.state \notin Begun
           /\ row.state \in Begun => new.state = row.state /\ new.value = row.value
<1> DEFINE target == clerks[c].target
<1>1. row \in ProposalRow /\ target \in ProposalRow
  BY DEF ProposalTypeOK, ClerkState, Idle
<1>2. target.state \in Begun => CopyIsTrue(target)
  BY DEF CopiesInv
<1>3. CASE ~Admits(row, target)
  BY <1>1, <1>3
<1>4. CASE Admits(row, target)
  <2>1. new = target
    BY <1>4
  <2> HIDE DEF target
  <2> QED
    BY <1>1, <1>2, <1>4, <2>1, AdmitsTheEnd DEF CopyIsTrue, Begun
<1> QED
  BY <1>3, <1>4

\* A handler that saves, approves or undoes, a card that is posted, and the
\* clock.
LEMMA HandlersKeep ==
    ASSUME ProposalTypeOK, LifeInv, UndoneInv,
           \/ \E c \in Clerks : SavesRow(c) \/ ApproveSaves(c) \/ UndoCommits(c)
           \/ \E k \in Cards : PostCard(k)
           \/ TimePasses \/ ExpireDue
    PROVE  ProposalTypeOK' /\ LifeInv' /\ UndoneInv'
<1>0. /\ row \in ProposalRow /\ clerks \in [Clerks -> ClerkState] /\ Idle \in ClerkState
      /\ MaxExpiry \in Nat
      /\ row.state \in {"pending", "postponed", "scheduled"} => row.state \notin Begun
  BY ProposalAssumption DEF ProposalTypeOK, ClerkState, Begun
<1>1. ASSUME NEW c \in Clerks, SavesRow(c)
      PROVE  ProposalTypeOK' /\ LifeInv' /\ UndoneInv'
  <2>1. /\ clerks[c] # Idle /\ clerks' = [clerks EXCEPT ![c] = Idle]
        /\ row' = IF Admits(row, clerks[c].target) THEN clerks[c].target ELSE row
        /\ lock' \in {lock, Nobody} /\ UNCHANGED <<past, execVars, undoVars, cards>>
    BY <1>1 DEF SavesRow, Ends, Releases, Idle
  <2>2. /\ row' \in ProposalRow
        /\ row.state \notin Begun => row'.state \notin Begun
        /\ row.state \in Begun => row'.state = row.state /\ row'.value = row.value
    BY <2>1, SaveKeepsTheBegun DEF LifeInv
  <2>3. LifeInv'
    BY <2>1, <2>2, RowSaved DEF execVars
  <2>4. ProposalTypeOK' /\ UndoneInv'
    BY <1>0, <2>1, <2>2 DEF ProposalTypeOK, UndoneInv, execVars, undoVars
  <2> QED
    BY <2>3, <2>4
<1>2. ASSUME NEW c \in Clerks, ApproveSaves(c)
      PROVE  ProposalTypeOK' /\ LifeInv' /\ UndoneInv'
  <2> DEFINE t == clerks[c].target
             k == clerks[c].card
  <2>1. clerks[c] # Idle /\ clerks[c].why = "approve"
        /\ t \in ProposalRow /\ k \in Cards \cup {Nobody} /\ t.state = "scheduled"
    BY <1>0, <1>2 DEF ApproveSaves, Idle, ClerkState, LifeInv, CopiesInv
  <2>2. /\ clerks' = [clerks EXCEPT ![c] = Idle]
        /\ UNCHANGED <<past, lock, work, sent, applied, undoVars>>
        /\ \/ /\ Admits(row, [t EXCEPT !.state = "approved"]) /\ KeyIsFree(t.value) /\ row' = t
              /\ attempts' = [attempts EXCEPT ![t.value] = "claimed"]
           \/ UNCHANGED <<row, attempts>>
        /\ \E state \in {"used", "posted"} :
              cards' = IF k = Nobody THEN cards ELSE [cards EXCEPT ![k].state = state]
    BY <1>2 DEF ApproveSaves, Ends
  <2>3. Admits(row, [t EXCEPT !.state = "approved"]) => row.state \notin Begun
    <3>1. [t EXCEPT !.state = "approved"].state = "approved"
      BY <2>1 DEF ProposalRow
    <3>2. row.state \in {"absent", "executing", "pending", "postponed", "scheduled", "rejected",
                         "expired", "invalidated", "executed", "failed"}
      BY <1>0, RowStates DEF ProposalRow
    <3> DEFINE new == [t EXCEPT !.state = "approved"]
    <3> HIDE DEF new
    <3>3. new.state = "approved" /\ Admits(row, new) => row.state \notin Begun
      BY <3>2 DEF Admits, AllowedFrom, Reopens, Begun
    <3> QED
      BY <3>1, <3>3 DEF new
  <2>4. t.state \notin Begun
    BY <2>1 DEF Begun
  <2>5. cards' \in [Cards -> [state : {"absent", "posted", "held", "used"},
                              value : Values \cup {Nobody}]]
    <3> HIDE DEF k
    <3>1. ASSUME NEW state \in {"used", "posted"}, k # Nobody
          PROVE  [cards EXCEPT ![k].state = state] \in
                     [Cards -> [state : {"absent", "posted", "held", "used"},
                                value : Values \cup {Nobody}]]
      BY <2>1, <3>1 DEF ProposalTypeOK
    <3> QED
      BY <2>2, <3>1 DEF ProposalTypeOK
  <2> HIDE DEF t, k
  <2>6. /\ row' \in ProposalRow
        /\ row.state \notin Begun => row'.state \notin Begun
        /\ row.state \in Begun => row'.state = row.state /\ row'.value = row.value
    BY <1>0, <2>1, <2>2, <2>3, <2>4
  <2>7. LifeInv'
    BY <2>2, <2>6, RowSaved
  <2>8. attempts' \in [Values -> Unresolved \cup {"none", "claimed", "executed", "failed"}]
    BY <2>2 DEF ProposalTypeOK
  <2> QED
    BY <1>0, <2>2, <2>5, <2>6, <2>7, <2>8 DEF ProposalTypeOK, UndoneInv, undoVars
<1>3. ASSUME NEW c \in Clerks, UndoCommits(c)
      PROVE  ProposalTypeOK' /\ LifeInv' /\ UndoneInv'
  <2>1. /\ clerks' = [clerks EXCEPT ![c] = Idle]
        /\ \/ undone' = TRUE /\ restored' = restored + 1 /\ ~undone
           \/ UNCHANGED <<undone, restored>>
        /\ lock' \in {lock, Nobody} /\ UNCHANGED <<row, past, execVars, cards>>
    BY <1>3 DEF UndoCommits, ClaimsUndo, Ends, Releases, undoVars
  <2>2. LifeInv'
    BY <2>1, RowSaved DEF execVars
  <2>3. undone' \in BOOLEAN /\ restored' \in Nat /\ UndoneInv'
    <3>1. CASE UNCHANGED <<undone, restored>>
      BY <3>1 DEF ProposalTypeOK, UndoneInv
    <3>2. CASE undone' = TRUE /\ restored' = restored + 1 /\ ~undone
      <4>1. restored = 0
        BY <3>2 DEF UndoneInv
      <4>2. restored' = 1 /\ undone'
        BY <3>2, <4>1
      <4> QED
        BY <3>2, <4>2 DEF UndoneInv
    <3> QED
      BY <2>1, <3>1, <3>2
  <2> QED
    BY <1>0, <2>1, <2>2, <2>3 DEF ProposalTypeOK, execVars
<1>4. ASSUME NEW k \in Cards, PostCard(k)
      PROVE  ProposalTypeOK' /\ LifeInv' /\ UndoneInv'
  <2>1. /\ cards' = [cards EXCEPT ![k] = [state |-> "posted", value |-> row.value]]
        /\ row.value \in Values \cup {Nobody}
        /\ UNCHANGED <<row, past, clerks, lock, execVars, undoVars>>
    BY <1>0, <1>4 DEF PostCard, ProposalRow
  <2>2. ProposalTypeOK' /\ UndoneInv'
    BY <2>1 DEF ProposalTypeOK, UndoneInv, execVars, undoVars
  <2> QED
    BY <2>1, <2>2 DEF LifeInv, CopiesInv, CopyIsTrue, WorkInv, SentInv, execVars
<1>5. CASE TimePasses
  <2>1. past' \in 0..MaxExpiry /\ UNCHANGED <<row, clerks, lock, execVars, undoVars, cards>>
    BY <1>0, <1>5 DEF TimePasses, ProposalTypeOK
  <2>2. ProposalTypeOK' /\ UndoneInv'
    BY <2>1 DEF ProposalTypeOK, UndoneInv, execVars, undoVars
  <2> QED
    BY <2>1, <2>2 DEF LifeInv, CopiesInv, CopyIsTrue, WorkInv, SentInv, execVars
<1>6. CASE ExpireDue
  <2>1. /\ row' \in ProposalRow /\ row'.state \notin Begun /\ row.state \notin Begun
        /\ UNCHANGED <<past, clerks, lock, execVars, undoVars, cards>>
    <3>1. /\ [row EXCEPT !.state = "expired"] \in ProposalRow
          /\ [row EXCEPT !.state = "expired"].state = "expired"
      BY <1>0, RowCopied, RowStates
    <3> QED
      BY <1>0, <1>6, <3>1 DEF ExpireDue, Begun
  <2>2. CASE Clerks # {}
    BY <2>1, <2>2, RowSaved DEF ProposalTypeOK, UndoneInv, execVars, undoVars
  <2>3. CASE Clerks = {}
    BY <2>1, <2>3 DEF ProposalTypeOK, UndoneInv, execVars, undoVars, LifeInv, CopiesInv,
                      WorkInv, SentInv, Begun
  <2> QED
    BY <2>2, <2>3
<1> QED
  BY <1>1, <1>2, <1>3, <1>4, <1>5, <1>6

\* A handler that reads.
LEMMA ReadersKeep ==
    ASSUME ProposalTypeOK, LifeInv, UndoneInv, NEW c \in Clerks, ReadsRow(c)
    PROVE  ProposalTypeOK' /\ LifeInv' /\ UndoneInv'
<1>1. UNCHANGED <<row, past, execVars, undoVars>> /\ lock' \in {lock, c}
  BY DEF ReadsRow, ProposeReads, EditReads, NoteReads, PostponeReads, TurnDownReads,
         ApproveReads, TapReads, TapRereads, UndoReads
<1>2. cards' \in [Cards -> [state : {"absent", "posted", "held", "used"},
                            value : Values \cup {Nobody}]]
  <2>1. \/ UNCHANGED cards
        \/ \E k : \E state \in {"held", "used"} : cards' = [cards EXCEPT ![k].state = state]
    BY DEF ReadsRow, ProposeReads, EditReads, NoteReads, PostponeReads, TurnDownReads,
           ApproveReads, TapReads, TapRereads, UndoReads
  <2> QED
    BY <2>1 DEF ProposalTypeOK
<1>3. \/ UNCHANGED clerks
      \/ \E state \in ClerkState :
            /\ clerks' = [clerks EXCEPT ![c] = state]
            /\ state # Idle =>
                  /\ state.target.state \in Begun => CopyIsTrue(state.target)
                  /\ state.why = "approve" => state.target.state = "scheduled"
  BY ReadsWhatIsThere DEF LifeInv
<1>4. clerks' \in [Clerks -> ClerkState] /\ CopiesInv'
  BY <1>1, <1>3 DEF ProposalTypeOK, LifeInv, CopiesInv, CopyIsTrue
<1> QED
  BY <1>1, <1>2, <1>4 DEF ProposalTypeOK, LifeInv, WorkInv, SentInv, UndoneInv, execVars, undoVars

\* A step of the worker that leaves the row and what was sent as they are.
LEMMA WorkerInHand ==
    ASSUME ProposalTypeOK, LifeInv, UNCHANGED <<row, clerks, sent>>,
           \/ work' = Idle
           \/ /\ work'.why \in {"gates", "cleared"} /\ row.state \notin Begun
              /\ work'.held.value = work'.attempt
    PROVE  LifeInv'
<1>1. CopiesInv'
  BY DEF LifeInv, CopiesInv, CopyIsTrue
<1>2. WorkInv'
  BY DEF LifeInv, WorkInv
<1>3. SentInv'
  BY DEF LifeInv, SentInv, Idle
<1> QED
  BY <1>1, <1>2, <1>3 DEF LifeInv

\* A step of the worker that ends with an execution begun or over: the row kept
\* its value if it had begun, and nothing was sent if it had not.
LEMMA WorkerEnds ==
    ASSUME ProposalTypeOK, LifeInv, UNCHANGED <<clerks, sent>>, work' = Idle,
           row'.state \in Begun,
           row.state \in Begun => row.state = "executing" /\ row'.value = row.value
    PROVE  LifeInv'
<1>1. ASSUME NEW c \in Clerks, clerks[c] # Idle, clerks[c].target.state \in Begun
      PROVE  CopyIsTrue(clerks[c].target)'
  <2>1. CopyIsTrue(clerks[c].target)
    BY <1>1 DEF LifeInv, CopiesInv
  <2>2. row.state = "executing" /\ clerks[c].target.state = "executing"
        /\ row'.value = clerks[c].target.value
    BY <1>1, <2>1 DEF CopyIsTrue, Begun
  <2> QED
    BY <2>2 DEF CopyIsTrue
<1>2. CopiesInv'
  BY <1>1 DEF LifeInv, CopiesInv
<1>3. WorkInv'
  BY DEF WorkInv
<1>4. SentInv'
  BY DEF LifeInv, SentInv, Idle
<1> QED
  BY <1>2, <1>3, <1>4 DEF LifeInv

\* The execution cycle.
LEMMA WorkerKeeps ==
    ASSUME ProposalTypeOK, LifeInv, UndoneInv, ExecutionCycle
    PROVE  ProposalTypeOK' /\ LifeInv' /\ UndoneInv'
<1>0. /\ row \in ProposalRow /\ work \in WorkState /\ Idle \in WorkState
      /\ sent \in [Values -> Nat]
      /\ attempts \in [Values -> Unresolved \cup {"none", "claimed", "executed", "failed"}]
      /\ work # Idle => work.held \in ProposalRow /\ work.attempt \in Values
  BY DEF ProposalTypeOK, WorkState
<1>1. UndoneInv' /\ UNCHANGED <<past, clerks, cards, undone, restored>>
  <2>1. UNCHANGED <<past, clerks, cards, undone, restored>>
    BY DEF ExecutionCycle, GatesRead, Reconcile, GatesPass, StartRunning, Send, Answer, WorkerDies,
           undoVars
  <2> QED
    BY <2>1 DEF UndoneInv
<1>2. ASSUME row' \in ProposalRow, work' \in WorkState, lock' \in {lock, Worker, Nobody},
             attempts' \in [Values -> Unresolved \cup {"none", "claimed", "executed", "failed"}],
             sent' \in [Values -> Nat], applied' \subseteq Values
      PROVE  ProposalTypeOK'
  BY <1>1, <1>2 DEF ProposalTypeOK
<1>3. ASSUME NEW v \in Values, GatesRead(v)
      PROVE  ProposalTypeOK' /\ LifeInv'
  <2> DEFINE taken == [why |-> "gates", attempt |-> v, held |-> row]
  <2>1. taken \in WorkState
    BY <1>0 DEF WorkState
  <2>2. /\ \/ /\ row.state = "scheduled" /\ row.value = v /\ work' = taken /\ lock' = Worker
              /\ UNCHANGED attempts
           \/ /\ work' = Idle /\ attempts' = [attempts EXCEPT ![v] = "failed"] /\ UNCHANGED lock
        /\ UNCHANGED <<row, clerks, sent, applied>>
    BY <1>3 DEF GatesRead, GatesAdmit, Leaves
  <2>3. attempts' \in [Values -> Unresolved \cup {"none", "claimed", "executed", "failed"}]
    BY <1>0, <2>2
  <2>4. ProposalTypeOK'
    BY <1>0, <1>2, <2>1, <2>2, <2>3 DEF ProposalTypeOK
  <2>5. LifeInv'
    BY <2>2, WorkerInHand DEF Begun
  <2> QED
    BY <2>4, <2>5
<1>4. CASE GatesPass
  <2> DEFINE taken == [work EXCEPT !.why = "cleared"]
  <2>1. work.why = "gates" /\ work # Idle
    BY <1>4 DEF GatesPass, Idle
  <2>2. /\ taken \in WorkState /\ taken.why = "cleared" /\ taken.held = work.held
        /\ taken.attempt = work.attempt
    BY <1>0, <2>1 DEF WorkState
  <2>3. /\ \/ work' = taken /\ attempts' = [attempts EXCEPT ![work.attempt] = "reserved"]
           \/ work' = Idle /\ attempts' = [attempts EXCEPT ![work.attempt] = "failed"]
        /\ lock' = Nobody /\ UNCHANGED <<row, clerks, sent, applied>>
    BY <1>4 DEF GatesPass, Leaves
  <2>4. attempts' \in [Values -> Unresolved \cup {"none", "claimed", "executed", "failed"}]
    BY <1>0, <2>3 DEF Unresolved
  <2> HIDE DEF taken
  <2>5. ProposalTypeOK'
    BY <1>0, <1>2, <2>2, <2>3, <2>4 DEF ProposalTypeOK
  <2>6. LifeInv'
    BY <2>1, <2>2, <2>3, WorkerInHand DEF LifeInv, WorkInv
  <2> QED
    BY <1>1, <2>5, <2>6
<1>5. CASE StartRunning
  <2> DEFINE began == [work.held EXCEPT !.state = "executing"]
             taken == [work EXCEPT !.why = "sending", !.held = began]
  <2>1. /\ work.why = "cleared" /\ work # Idle /\ row.state \notin Begun
        /\ work.held.value = work.attempt
    BY <1>5 DEF StartRunning, Idle, LifeInv, WorkInv
  <2>2. began \in ProposalRow /\ began.state = "executing" /\ began.value = work.attempt
    BY <1>0, <2>1, RowCopied, RowStates
  <2>3. /\ taken \in WorkState /\ taken.why = "sending" /\ taken.held = began
        /\ taken.attempt = work.attempt
    <3> HIDE DEF began
    <3> QED
      BY <1>0, <2>1, <2>2 DEF WorkState
  <2>4. /\ \/ /\ row' = began /\ work' = taken
              /\ attempts' = [attempts EXCEPT ![work.attempt] = "running"]
           \/ /\ work' = Idle /\ attempts' = [attempts EXCEPT ![work.attempt] = "unknown"]
              /\ UNCHANGED row
        /\ UNCHANGED <<lock, clerks, sent, applied>>
    BY <1>5 DEF StartRunning, Leaves
  <2>5. attempts' \in [Values -> Unresolved \cup {"none", "claimed", "executed", "failed"}]
    BY <1>0, <2>4 DEF Unresolved
  <2> HIDE DEF began, taken
  <2>6. ProposalTypeOK'
    BY <1>0, <1>2, <2>2, <2>3, <2>4, <2>5 DEF ProposalTypeOK
  <2>7. CASE work' = Idle /\ UNCHANGED row
    BY <1>1, <2>4, <2>6, <2>7, WorkerInHand
  <2>8. CASE row' = began /\ work' = taken
    <3>1. CopiesInv'
      BY <2>1, <2>4 DEF LifeInv, CopiesInv, CopyIsTrue
    <3>2. WorkInv'
      BY <2>2, <2>3, <2>8 DEF WorkInv
    <3>3. SentInv'
      BY <2>1, <2>4 DEF LifeInv, SentInv
    <3> QED
      BY <1>1, <2>6, <3>1, <3>2, <3>3 DEF LifeInv
  <2> QED
    BY <1>1, <2>4, <2>6, <2>7, <2>8
<1>6. CASE Send
  <2> DEFINE v == work.held.value
             taken == [work EXCEPT !.why = "waiting"]
  <2>1. /\ work.why = "sending" /\ work # Idle /\ v = work.attempt /\ v \in Values
        /\ row.state = "executing" /\ row.value = v
    BY <1>0, <1>6 DEF Send, Idle, LifeInv, WorkInv
  <2>2. /\ taken \in WorkState /\ taken.why = "waiting" /\ taken.held = work.held
        /\ taken.attempt = work.attempt
    BY <1>0, <2>1 DEF WorkState
  <2>3. /\ sent' = [sent EXCEPT ![v] = sent[v] + 1] /\ work' = taken
        /\ applied' \in {applied, applied \cup {v}}
        /\ UNCHANGED <<row, clerks, lock, attempts>>
    BY <1>6 DEF Send
  <2>4. \A u \in Values : sent[u] = 0
    BY <2>1 DEF LifeInv, SentInv
  <2>5. sent' \in [Values -> Nat] /\ sent'[v] = 1 /\ \A u \in Values \ {v} : sent'[u] = 0
    <3> HIDE DEF v, taken
    <3> QED
      BY <1>0, <2>1, <2>3, <2>4
  <2> HIDE DEF taken
  <2>6. ProposalTypeOK'
    BY <1>0, <1>2, <2>1, <2>2, <2>3, <2>5 DEF ProposalTypeOK
  <2>7. CopiesInv' /\ WorkInv'
    BY <2>1, <2>2, <2>3 DEF LifeInv, CopiesInv, CopyIsTrue, WorkInv
  <2>8. SentInv'
    <3> HIDE DEF v
    <3> QED
      BY <2>1, <2>2, <2>3, <2>5 DEF SentInv, Begun
  <2> QED
    BY <1>1, <2>6, <2>7, <2>8 DEF LifeInv
<1>7. CASE Answer
  <2>1. /\ work.why = "waiting" /\ work # Idle /\ row.state = "executing"
        /\ row.value = work.held.value
    BY <1>7 DEF Answer, Idle, LifeInv, WorkInv
  <2>2. /\ work' = Idle /\ UNCHANGED <<lock, clerks, sent, applied>>
        /\ \E outcome \in {"executed", "failed", "unknown"} :
              attempts' = [attempts EXCEPT ![work.attempt] = outcome]
        /\ \/ UNCHANGED row
           \/ \E outcome \in {"executed", "failed"} : row' = [work.held EXCEPT !.state = outcome]
    BY <1>7 DEF Answer, Records, Leaves
  <2>3. ASSUME NEW outcome \in {"executed", "failed"}
        PROVE  /\ [work.held EXCEPT !.state = outcome] \in ProposalRow
               /\ [work.held EXCEPT !.state = outcome].state = outcome
               /\ [work.held EXCEPT !.state = outcome].value = row.value
    BY <1>0, <2>1, RowCopied, RowStates
  <2>4. row' \in ProposalRow /\ row'.state \in Begun /\ row'.value = row.value
    BY <1>0, <2>1, <2>2, <2>3 DEF Begun
  <2>5. attempts' \in [Values -> Unresolved \cup {"none", "claimed", "executed", "failed"}]
    BY <1>0, <2>2 DEF Unresolved
  <2>6. ProposalTypeOK'
    BY <1>0, <1>2, <2>2, <2>4, <2>5 DEF ProposalTypeOK
  <2>7. LifeInv'
    BY <2>1, <2>2, <2>4, WorkerEnds
  <2> QED
    BY <1>1, <2>6, <2>7
<1>8. CASE WorkerDies
  <2>1. work' = Idle /\ lock' \in {lock, Nobody} /\ UNCHANGED <<row, clerks, attempts, sent, applied>>
    BY <1>8 DEF WorkerDies
  <2>2. LifeInv'
    BY <2>1, WorkerInHand
  <2> QED
    BY <1>0, <1>1, <1>2, <2>1, <2>2 DEF ProposalTypeOK
<1>9. ASSUME NEW v \in Values, Reconcile(v)
      PROVE  ProposalTypeOK' /\ LifeInv'
  <2>1. /\ work' = Idle /\ UNCHANGED <<lock, clerks, sent, applied>>
        /\ \E outcome \in {"executed", "unknown"} :
              attempts' = [attempts EXCEPT ![v] = outcome]
    BY <1>9 DEF Reconcile
  <2>2. \/ UNCHANGED row
        \/ /\ row.state \in {"scheduled", "executing"}
           /\ \/ row' = [[row EXCEPT !.state = "executing"] EXCEPT !.state = "executed"]
              \/ row' = [[row EXCEPT !.state = "executing"] EXCEPT !.state = @]
    BY <1>9 DEF Reconcile
  <2>3. attempts' \in [Values -> Unresolved \cup {"none", "claimed", "executed", "failed"}]
    BY <1>0, <2>1 DEF Unresolved
  <2>4. CASE UNCHANGED row
    <3>1. LifeInv'
      BY <2>1, <2>4, WorkerInHand
    <3> QED
      BY <1>0, <1>2, <2>1, <2>3, <2>4, <3>1 DEF ProposalTypeOK
  <2>5. CASE /\ row.state \in {"scheduled", "executing"}
             /\ \/ row' = [[row EXCEPT !.state = "executing"] EXCEPT !.state = "executed"]
                \/ row' = [[row EXCEPT !.state = "executing"] EXCEPT !.state = @]
    <3> DEFINE held == [row EXCEPT !.state = "executing"]
    <3>1. held \in ProposalRow /\ held.state = "executing" /\ held.value = row.value
      BY <1>0, RowCopied, RowStates
    <3>2. PICK state \in {"executing", "executed"} : row' = [held EXCEPT !.state = state]
      BY <2>5, <3>1
    <3> HIDE DEF held
    <3>3. row' \in ProposalRow /\ row'.state \in {"executing", "executed"} /\ row'.value = row.value
      <4>1. /\ [held EXCEPT !.state = state] \in ProposalRow
            /\ [held EXCEPT !.state = state].state = state
            /\ [held EXCEPT !.state = state].value = held.value
        BY <3>1, RowCopied, RowStates
      <4> QED
        BY <3>1, <3>2, <4>1
    <3>4. LifeInv'
      BY <2>1, <2>5, <3>3, WorkerEnds DEF Begun
    <3> QED
      BY <1>0, <1>2, <2>1, <2>3, <3>3, <3>4 DEF ProposalTypeOK
  <2> QED
    BY <2>2, <2>4, <2>5
<1> QED
  BY <1>1, <1>3, <1>4, <1>5, <1>6, <1>7, <1>8, <1>9 DEF ExecutionCycle

\* Every step keeps the types, the copies, the work in hand and the counts.
LEMMA ProposalNextInv ==
    ProposalTypeOK /\ LifeInv /\ UndoneInv /\ [ProposalNext]_proposalVars
        => ProposalTypeOK' /\ LifeInv' /\ UndoneInv'
<1> SUFFICES ASSUME ProposalTypeOK, LifeInv, UndoneInv, [ProposalNext]_proposalVars
             PROVE  ProposalTypeOK' /\ LifeInv' /\ UndoneInv'
  OBVIOUS
<1>1. CASE UNCHANGED proposalVars
  BY <1>1 DEF proposalVars, execVars, undoVars, ProposalTypeOK, LifeInv, CopiesInv, CopyIsTrue,
              WorkInv, SentInv, UndoneInv
<1>2. CASE ExecutionCycle
  BY <1>2, WorkerKeeps
<1>3. ASSUME NEW c \in Clerks, ReadsRow(c)
      PROVE  ProposalTypeOK' /\ LifeInv' /\ UndoneInv'
  BY <1>3, ReadersKeep
<1>4. CASE \/ \E c \in Clerks : SavesRow(c) \/ ApproveSaves(c) \/ UndoCommits(c)
           \/ \E k \in Cards : PostCard(k)
           \/ TimePasses \/ ExpireDue
  BY <1>4, HandlersKeep
<1>5. \/ UNCHANGED proposalVars \/ ExecutionCycle \/ \E c \in Clerks : ReadsRow(c)
      \/ \E c \in Clerks : SavesRow(c) \/ ApproveSaves(c) \/ UndoCommits(c)
      \/ \E k \in Cards : PostCard(k)
      \/ TimePasses \/ ExpireDue
  BY DEF ProposalNext, Clerk, ReadsRow
<1> QED
  BY <1>1, <1>2, <1>3, <1>4, <1>5

\* They hold in every reachable state.
LEMMA ProposalInvariant == ProposalSpec => [](ProposalTypeOK /\ LifeInv /\ UndoneInv)
<1> QED
  BY ProposalInitInv, ProposalNextInv, PTL DEF ProposalSpec

\* A row, a copy of it, an attempt and a card never say anything but what their
\* tables allow; APPROVED is left in the row by nobody.
THEOREM ProposalTypes == ProposalSpec => []ProposalTypeOK
<1> QED
  BY ProposalInvariant, PTL

\* A write leaves the worker only while the row is executing and says that very
\* value, whatever handlers hold copies of the row and save them.
THEOREM ProposalSentAsTheRowSays == ProposalSpec => SentAsTheRowSays
<1> DEFINE AsTheRowSays == \A v \in Values : sent'[v] # sent[v] =>
                               row.state = "executing" /\ row.value = v /\ work.attempt = v
<1>1. ASSUME ProposalTypeOK, LifeInv, ProposalNext, NEW v \in Values, sent'[v] # sent[v]
      PROVE  row.state = "executing" /\ row.value = v /\ work.attempt = v
  <2>1. Send
    BY <1>1 DEF ProposalNext, Clerk, ExecutionCycle, GatesRead, Reconcile, GatesPass, StartRunning,
                Answer, WorkerDies, ProposeReads, EditReads, NoteReads, PostponeReads,
                TurnDownReads, ApproveReads, TapReads, TapRereads, SavesRow, ApproveSaves,
                UndoReads, UndoCommits, PostCard, TimePasses, ExpireDue, execVars
  <2>2. /\ work # Idle /\ work.why = "sending"
        /\ sent' = [sent EXCEPT ![work.held.value] = sent[work.held.value] + 1]
    BY <2>1 DEF Send, Idle
  <2>3. v = work.held.value
    BY <1>1, <2>2 DEF ProposalTypeOK
  <2> QED
    BY <1>1, <2>2, <2>3 DEF LifeInv, WorkInv
<1>2. ProposalTypeOK /\ LifeInv /\ UndoneInv /\ [ProposalNext]_proposalVars
          => [AsTheRowSays]_proposalVars
  BY <1>1
<1> QED
  BY <1>2, ProposalInvariant, PTL DEF ProposalSpec, SentAsTheRowSays

\* A proposal leads to one write in all, whatever values it went through, and
\* however often it is approved, edited, reconciled or left by a worker that dies.
THEOREM ProposalSentOnce == ProposalSpec => []SentOnceInAll
<1>1. ProposalTypeOK /\ LifeInv /\ UndoneInv => SentOnceInAll
  <2> SUFFICES ASSUME ProposalTypeOK, SentInv, NEW u \in Values, NEW v \in Values,
                      sent[u] > 0, sent[v] > 0
               PROVE  u = v /\ sent[u] = 1
    BY DEF LifeInv, SentOnceInAll
  <2>1. sent[u] # 0 /\ sent[v] # 0
    OBVIOUS
  <2> QED
    BY <2>1 DEF SentInv
<1> QED
  BY <1>1, ProposalInvariant, PTL

\* However many handlers undo an executed change at once, one compensating
\* proposal is made.
THEOREM ProposalUndoneOnce == ProposalSpec => []UndoneOnce
<1>1. ProposalTypeOK /\ LifeInv /\ UndoneInv => UndoneOnce
  BY DEF UndoneInv, UndoneOnce
<1> QED
  BY <1>1, ProposalInvariant, PTL

-----------------------------------------------------------------------------
(* ProposalLifecycle implements ProposalPromise. *)

\* Only values the owner agreed to are scheduled or executed, by the row, by any
\* copy but that of an approval which has not saved yet, and by the worker; and
\* an undo is about an executed row.
Committed(r) == r.state \in {"scheduled"} \cup Begun
IsAgreed(clerk) ==
    clerk # Idle =>
        /\ clerk.target.value \in Values
        /\ clerk.why # "approve" /\ Committed(clerk.target) => clerk.target.value \in Agreed
        /\ clerk.why = "undo" => clerk.target.state = "executed"
ConsentInv ==
    /\ row.state # "absent" => row.value \in Values
    /\ Committed(row) => row.value \in Agreed
    /\ \A c \in Clerks : IsAgreed(clerks[c])
    /\ work # Idle => work.attempt \in Agreed

\* What the platform took was sent, and the row of a finished execution tells
\* whether it took it.
VerdictInv ==
    /\ \A v \in applied : sent[v] = 1
    /\ row.state = "executed" => row.value \in applied
    /\ row.state = "failed" => sent[row.value] = 1 /\ row.value \notin applied
    /\ work.why = "waiting" => sent[work.held.value] = 1

PromiseInv == ConsentInv /\ VerdictInv
KeptInv == ProposalTypeOK /\ LifeInv /\ UndoneInv /\ PromiseInv
PromiseStep == [Promise!PromiseNext]_(Promise!promiseVars)

\* The trigger lets nobody out of a state that is final.
LEMMA AdmitsNoReturn ==
    ASSUME NEW old, NEW new, Admits(old, new), old.state \in Final
    PROVE  new.state = old.state
<1>1. old.state \in {"rejected", "expired", "invalidated", "executed", "failed"}
  BY DEF Final
<1>2. AllowedFrom(old.state) = {} /\ ~Reopens(old, new)
  BY <1>1 DEF AllowedFrom, Reopens
<1> QED
  BY <1>2 DEF Admits

\* The end of an attempt that exists takes no value out of those agreed to.
LEMMA AgreedStays ==
    ASSUME ProposalTypeOK, NEW v \in Agreed, NEW outcome, outcome # "none",
           attempts' = [attempts EXCEPT ![v] = outcome]
    PROVE  Agreed' = Agreed
<1>1. \A u \in Values : attempts'[u] # "none" <=> attempts[u] # "none"
  BY DEF ProposalTypeOK, Agreed
<1> QED
  BY <1>1 DEF Agreed

\* Who touches none of what the promise is about keeps it by doing nothing.
LEMMA PromiseStutters ==
    ASSUME UNCHANGED <<row, sent, applied, restored>>, Agreed' = Agreed
    PROVE  PromiseStep
BY DEF PromiseStep, Promise!promiseVars, Status, Chosen

\* A handler that reads has in hand a row with a value that was proposed, and
\* agreed to if the row is past the approval.
LEMMA ReadsTheAgreed ==
    ASSUME ProposalTypeOK, ConsentInv, NEW c \in Clerks, ReadsRow(c)
    PROVE  \/ UNCHANGED clerks
           \/ \E state : clerks' = [clerks EXCEPT ![c] = state] /\ IsAgreed(state)
<1>0. row \in ProposalRow
  BY DEF ProposalTypeOK
<1>1. ASSUME NEW why, NEW target, Means(c, why, target), target.value \in Values,
             why # "approve" /\ Committed(target) => target.value \in Agreed,
             why = "undo" => target.state = "executed"
      PROVE  \E state : clerks' = [clerks EXCEPT ![c] = state] /\ IsAgreed(state)
  <2> DEFINE state == [why |-> why, target |-> target, card |-> Nobody]
  <2>1. clerks' = [clerks EXCEPT ![c] = state]
    BY <1>1 DEF Means
  <2>2. state.target = target /\ state.why = why
    OBVIOUS
  <2> HIDE DEF state
  <2> QED
    BY <1>1, <2>1, <2>2 DEF IsAgreed
<1>2. ASSUME NEW v \in Values, ProposeReads(c, v)
      PROVE  \E target : /\ Means(c, "propose", target) /\ target.value \in Values
                         /\ ~Committed(target)
  BY <1>2 DEF ProposeReads, Committed, Begun
<1>3. ASSUME NEW v \in Values, EditReads(c, v)
      PROVE  \E target : /\ Means(c, "edit", target) /\ target.value \in Values
                         /\ ~Committed(target)
  <2> DEFINE target == [row EXCEPT !.state = "pending", !.value = v]
  <2>1. target.state = "pending" /\ target.value = v
    BY <1>0 DEF ProposalRow
  <2> QED
    BY <1>3, <2>1 DEF EditReads, Committed, Begun
<1>4. ASSUME PostponeReads(c) \/ TurnDownReads(c) \/ ApproveReads(c)
      PROVE  \E why, target : /\ Means(c, why, target) /\ target.value \in Values
                              /\ why = "approve" \/ ~Committed(target)
                              /\ why # "undo"
  <2>1. PICK why \in {"postpone", "turn_down", "approve"},
             state \in {"postponed", "rejected", "invalidated", "scheduled"} :
            /\ Means(c, why, [row EXCEPT !.state = state])
            /\ why = "approve" \/ state # "scheduled"
            /\ row.state # "absent"
    BY <1>4 DEF PostponeReads, TurnDownReads, ApproveReads, Approved
  <2>2. /\ [row EXCEPT !.state = state].state = state
        /\ [row EXCEPT !.state = state].value = row.value
    BY <1>0, RowCopied, RowStates
  <2> QED
    BY <2>1, <2>2 DEF ConsentInv, Committed, Begun
<1>5. CASE NoteReads(c) \/ UndoReads(c)
  <2>1. \E why \in {"note", "undo"} : /\ Means(c, why, row) /\ row.state # "absent"
                                      /\ why = "undo" => row.state = "executed"
    BY <1>5 DEF NoteReads, UndoReads
  <2> QED
    BY <1>1, <2>1 DEF ConsentInv
<1>6. ASSUME NEW k \in Cards, TapReads(c, k), ~ UNCHANGED clerks
      PROVE  \E state : clerks' = [clerks EXCEPT ![c] = state] /\ IsAgreed(state)
  <2> DEFINE state == [why |-> "tap", target |-> row, card |-> k]
  <2>1. clerks' = [clerks EXCEPT ![c] = state] /\ row.state = "pending"
    BY <1>6 DEF TapReads
  <2>2. state.target = row /\ state.why = "tap"
    OBVIOUS
  <2> HIDE DEF state
  <2> QED
    BY <2>1, <2>2 DEF ConsentInv, IsAgreed, Committed, Begun
<1>7. ASSUME TapRereads(c)
      PROVE  \E state : clerks' = [clerks EXCEPT ![c] = state] /\ IsAgreed(state)
  <2>1. CASE row.state = "pending" /\ ~Overdue(row)
    <3> DEFINE target == Approved(row)
               state == [clerks[c] EXCEPT !.why = "approve", !.target = target]
    <3>1. target.value = row.value
      BY <1>0, RowCopied, RowStates DEF Approved
    <3>2. clerks[c] \in [why : {"propose", "edit", "note", "postpone", "turn_down", "tap", "approve",
                                "undo"},
                         target : ProposalRow, card : Cards \cup {Nobody}]
      BY <1>7 DEF TapRereads, ProposalTypeOK, ClerkState, Idle
    <3>3. clerks' = [clerks EXCEPT ![c] = state]
      BY <1>7, <2>1 DEF TapRereads
    <3> HIDE DEF target
    <3>4. state.why = "approve" /\ state.target = target
      BY <3>2
    <3> HIDE DEF state
    <3> QED
      BY <2>1, <3>1, <3>3, <3>4 DEF ConsentInv, IsAgreed
  <2>2. CASE ~(row.state = "pending" /\ ~Overdue(row))
    BY <1>7, <2>2 DEF TapRereads, Ends, IsAgreed
  <2> QED
    BY <2>1, <2>2
<1>8. CASE \E v \in Values : ProposeReads(c, v) \/ EditReads(c, v)
  BY <1>1, <1>2, <1>3, <1>8
<1>9. CASE PostponeReads(c) \/ TurnDownReads(c) \/ ApproveReads(c)
  BY <1>1, <1>4, <1>9
<1>10. CASE \E k \in Cards : TapReads(c, k)
  BY <1>6, <1>10
<1> QED
  BY <1>5, <1>7, <1>8, <1>9, <1>10 DEF ReadsRow

\* A handler that has read changes nothing the promise is about.
LEMMA ReadersPromise ==
    ASSUME KeptInv, NEW c \in Clerks, ReadsRow(c)
    PROVE  PromiseInv' /\ PromiseStep
<1>1. UNCHANGED <<row, execVars, undoVars>>
  BY ZenonT(60) DEF ReadsRow, ProposeReads, EditReads, NoteReads, PostponeReads, TurnDownReads,
         ApproveReads, TapReads, TapRereads, UndoReads
<1>2. Agreed' = Agreed /\ UNCHANGED <<row, work, sent, applied, restored>>
  BY <1>1 DEF Agreed, execVars, undoVars
<1>3. ASSUME NEW d \in Clerks PROVE IsAgreed(clerks[d])'
  <2>1. \/ UNCHANGED clerks
        \/ \E state : clerks' = [clerks EXCEPT ![c] = state] /\ IsAgreed(state)
    BY ReadsTheAgreed DEF KeptInv, PromiseInv
  <2>2. IsAgreed(clerks'[d])
    BY <2>1 DEF KeptInv, PromiseInv, ConsentInv, ProposalTypeOK
  <2> QED
    BY <1>2, <2>2 DEF IsAgreed
<1>4. ConsentInv' /\ VerdictInv'
  BY <1>2, <1>3 DEF KeptInv, PromiseInv, ConsentInv, VerdictInv
<1> QED
  BY <1>2, <1>4, PromiseStutters DEF PromiseInv

\* A save of a row closes an open proposal or changes nothing of what is told.
LEMMA SavesClose ==
    ASSUME ProposalTypeOK, row' \in ProposalRow, UNCHANGED <<sent, applied, restored>>,
           Agreed' = Agreed,
           row.state \notin Begun => row'.state \notin Begun,
           row.state \in Begun => row'.state = row.state /\ row'.value = row.value,
           row.state \in Final => row'.state = row.state
    PROVE  PromiseStep
<1>1. Chosen' = Chosen
  BY DEF Chosen
<1>2. CASE Status' = Status
  BY <1>1, <1>2 DEF PromiseStep, Promise!promiseVars
<1>3. CASE Status' # Status
  <2>1. Status = "open" /\ Status' = "closed"
    BY <1>3 DEF Status
  <2> QED
    BY <1>1, <2>1 DEF PromiseStep, Promise!PromiseNext, Promise!Close
<1> QED
  BY <1>2, <1>3

\* SavesRow.
LEMMA SavesPromise ==
    ASSUME KeptInv, NEW c \in Clerks, SavesRow(c)
    PROVE  PromiseInv' /\ PromiseStep
<1> DEFINE target == clerks[c].target
<1>0. ProposalTypeOK /\ LifeInv /\ ConsentInv /\ VerdictInv
  BY DEF KeptInv, PromiseInv
<1>1. /\ clerks[c] # Idle /\ clerks[c].why # "approve" /\ clerks' = [clerks EXCEPT ![c] = Idle]
      /\ row' = IF Admits(row, target) THEN target ELSE row
      /\ UNCHANGED <<attempts, work, sent, applied, restored>>
  BY DEF SavesRow, Ends, Idle, execVars, undoVars
<1>2. /\ row' \in ProposalRow
      /\ row.state \notin Begun => row'.state \notin Begun
      /\ row.state \in Begun => row'.state = row.state /\ row'.value = row.value
  BY <1>0, <1>1, SaveKeepsTheBegun DEF LifeInv
<1>3. row.state \in Final => row'.state = row.state
  BY <1>1, AdmitsNoReturn
<1>4. Agreed' = Agreed
  BY <1>1 DEF Agreed
<1>5. /\ row'.state # "absent" => row'.value \in Values
      /\ Committed(row') => row'.value \in Agreed
  BY <1>0, <1>1 DEF ConsentInv, IsAgreed
<1>6. \A d \in Clerks : IsAgreed(clerks[d])'
  <2>1. \A d \in Clerks : IsAgreed(clerks'[d])
    BY <1>0, <1>1 DEF ProposalTypeOK, ConsentInv, IsAgreed
  <2> QED
    BY <1>4, <2>1 DEF IsAgreed
<1>7. ConsentInv'
  BY <1>0, <1>1, <1>4, <1>5, <1>6 DEF ConsentInv, Committed
<1>8. VerdictInv'
  <2>1. row'.state \in {"executed", "failed"} => row'.state = row.state /\ row'.value = row.value
    BY <1>2 DEF Begun
  <2> QED
    BY <1>0, <1>1, <2>1 DEF VerdictInv
<1> QED
  BY <1>0, <1>1, <1>2, <1>3, <1>4, <1>7, <1>8, SavesClose DEF PromiseInv

\* ApproveSaves: one more value is agreed to.
LEMMA ApprovePromise ==
    ASSUME KeptInv, NEW c \in Clerks, ApproveSaves(c)
    PROVE  PromiseInv' /\ PromiseStep
<1> DEFINE t == clerks[c].target
<1>0. ProposalTypeOK /\ CopiesInv /\ ConsentInv /\ VerdictInv
  BY DEF KeptInv, PromiseInv, LifeInv
<1>1. /\ clerks[c] # Idle /\ clerks[c].why = "approve" /\ t \in ProposalRow
      /\ t.state = "scheduled" /\ t.value \in Values
  BY <1>0 DEF ApproveSaves, ProposalTypeOK, ClerkState, Idle, CopiesInv, ConsentInv, IsAgreed
<1>2. /\ clerks' = [clerks EXCEPT ![c] = Idle]
      /\ UNCHANGED <<work, sent, applied, restored>>
      /\ \/ /\ Admits(row, [t EXCEPT !.state = "approved"]) /\ KeyIsFree(t.value) /\ row' = t
            /\ attempts' = [attempts EXCEPT ![t.value] = "claimed"]
         \/ UNCHANGED <<row, attempts>>
  BY DEF ApproveSaves, Ends, undoVars
<1>3. CASE UNCHANGED <<row, attempts>>
  <2>1. Agreed' = Agreed
    BY <1>3 DEF Agreed
  <2>2. \A d \in Clerks : IsAgreed(clerks[d])'
    <3>1. \A d \in Clerks : IsAgreed(clerks'[d])
      BY <1>0, <1>2 DEF ProposalTypeOK, ConsentInv, IsAgreed
    <3> QED
      BY <2>1, <3>1 DEF IsAgreed
  <2>3. ConsentInv' /\ VerdictInv'
    BY <1>0, <1>2, <1>3, <2>1, <2>2 DEF ConsentInv, Committed, VerdictInv
  <2> QED
    BY <1>2, <1>3, <2>1, <2>3, PromiseStutters DEF PromiseInv
<1>4. CASE /\ Admits(row, [t EXCEPT !.state = "approved"]) /\ KeyIsFree(t.value) /\ row' = t
           /\ attempts' = [attempts EXCEPT ![t.value] = "claimed"]
  <2>1. row.state \in {"pending", "postponed"}
    <3> DEFINE new == [t EXCEPT !.state = "approved"]
    <3>1. new.state = "approved"
      BY <1>1 DEF ProposalRow
    <3>2. row.state \in {"absent", "executing", "pending", "postponed", "scheduled", "rejected",
                         "expired", "invalidated", "executed", "failed"}
      BY <1>0, RowStates DEF ProposalTypeOK, ProposalRow
    <3> HIDE DEF new
    <3>3. new.state = "approved" /\ Admits(row, new) => row.state \in {"pending", "postponed"}
      BY <3>2 DEF Admits, AllowedFrom, Reopens
    <3> QED
      BY <1>4, <3>1, <3>3 DEF new
  <2>2. Status = "open" /\ Status' = "open" /\ Chosen = Nobody /\ Chosen' = Nobody
    BY <1>1, <1>4, <2>1 DEF Status, Chosen, Begun, Final
  <2>3. t.value \notin Agreed /\ Agreed' = Agreed \cup {t.value}
    BY <1>0, <1>1, <1>4 DEF KeyIsFree, Agreed, ProposalTypeOK
  <2>4. Promise!Approve(t.value)
    BY <1>2, <2>2, <2>3 DEF Promise!Approve
  <2>5. PromiseStep
    BY <1>1, <2>3, <2>4 DEF PromiseStep, Promise!PromiseNext
  <2>6. \A d \in Clerks : IsAgreed(clerks[d])'
    <3>1. \A d \in Clerks : IsAgreed(clerks'[d])
      BY <1>0, <1>2 DEF ProposalTypeOK, ConsentInv, IsAgreed
    <3> QED
      BY <2>3, <3>1 DEF IsAgreed
  <2>7. ConsentInv'
    BY <1>0, <1>1, <1>2, <1>4, <2>3, <2>6 DEF ConsentInv
  <2>8. VerdictInv'
    BY <1>0, <1>1, <1>2, <1>4 DEF VerdictInv
  <2> QED
    BY <2>5, <2>7, <2>8 DEF PromiseInv
<1> QED
  BY <1>2, <1>3, <1>4

\* UndoCommits: the one undo of an executed proposal, or nothing.
LEMMA UndoPromise ==
    ASSUME KeptInv, NEW c \in Clerks, UndoCommits(c)
    PROVE  PromiseInv' /\ PromiseStep
<1>0. ProposalTypeOK /\ CopiesInv /\ UndoneInv /\ ConsentInv /\ VerdictInv
  BY DEF KeptInv, PromiseInv, LifeInv
<1>1. /\ clerks[c] # Idle /\ clerks[c].why = "undo" /\ clerks' = [clerks EXCEPT ![c] = Idle]
      /\ UNCHANGED <<row, attempts, work, sent, applied>>
      /\ \/ ~undone /\ restored' = restored + 1
         \/ UNCHANGED restored
  BY DEF UndoCommits, ClaimsUndo, Ends, Idle, execVars, undoVars
<1>2. row.state = "executed"
  <2>1. clerks[c].target.state = "executed"
    BY <1>0, <1>1 DEF ConsentInv, IsAgreed
  <2> QED
    BY <1>0, <1>1, <2>1 DEF CopiesInv, CopyIsTrue, Begun
<1>3. Agreed' = Agreed /\ Status' = Status /\ Chosen' = Chosen /\ Status = "executed"
  BY <1>1, <1>2 DEF Agreed, Status, Chosen, Begun
<1>4. PromiseStep
  <2>1. CASE UNCHANGED restored
    BY <1>1, <1>3, <2>1, PromiseStutters
  <2>2. CASE ~undone /\ restored' = restored + 1
    <3>1. restored = 0 /\ restored' = 1
      BY <1>0, <2>2 DEF UndoneInv
    <3>2. Promise!Undo
      BY <1>1, <1>3, <3>1 DEF Promise!Undo
    <3> QED
      BY <3>2 DEF PromiseStep, Promise!PromiseNext
  <2> QED
    BY <1>1, <2>1, <2>2
<1>5. \A d \in Clerks : IsAgreed(clerks[d])'
  <2>1. \A d \in Clerks : IsAgreed(clerks'[d])
    BY <1>0, <1>1 DEF ProposalTypeOK, ConsentInv, IsAgreed
  <2> QED
    BY <1>3, <2>1 DEF IsAgreed
<1>6. ConsentInv' /\ VerdictInv'
  BY <1>0, <1>1, <1>3, <1>5 DEF ConsentInv, Committed, VerdictInv
<1> QED
  BY <1>4, <1>6 DEF PromiseInv

\* A card that is posted, the clock, and the expiry of what is due.
LEMMA ClockPromise ==
    ASSUME KeptInv, (\E k \in Cards : PostCard(k)) \/ TimePasses \/ ExpireDue
    PROVE  PromiseInv' /\ PromiseStep
<1>0. ProposalTypeOK /\ ConsentInv /\ VerdictInv
  BY DEF KeptInv, PromiseInv
<1>1. /\ UNCHANGED <<clerks, attempts, work, sent, applied, restored>>
      /\ \/ UNCHANGED row
         \/ /\ row.state \in {"pending", "postponed"}
            /\ row' = [row EXCEPT !.state = "expired"]
  BY DEF PostCard, TimePasses, ExpireDue, execVars, undoVars
<1>2. Agreed' = Agreed
  BY <1>1 DEF Agreed
<1>3. \A d \in Clerks : IsAgreed(clerks[d])'
  BY <1>0, <1>1, <1>2 DEF ConsentInv, IsAgreed
<1>4. CASE UNCHANGED row
  <2>1. ConsentInv' /\ VerdictInv'
    BY <1>0, <1>1, <1>2, <1>3, <1>4 DEF ConsentInv, Committed, VerdictInv
  <2> QED
    BY <1>1, <1>2, <1>4, <2>1, PromiseStutters DEF PromiseInv
<1>5. CASE /\ row.state \in {"pending", "postponed"}
           /\ row' = [row EXCEPT !.state = "expired"]
  <2>1. row' \in ProposalRow /\ row'.state = "expired" /\ row'.value = row.value
    BY <1>0, <1>5, RowCopied, RowStates DEF ProposalTypeOK
  <2>2. ConsentInv' /\ VerdictInv'
    BY <1>0, <1>1, <1>2, <1>3, <1>5, <2>1 DEF ConsentInv, Committed, VerdictInv, Begun
  <2>3. PromiseStep
    BY <1>0, <1>1, <1>2, <1>5, <2>1, SavesClose DEF Begun, Final
  <2> QED
    BY <2>2, <2>3 DEF PromiseInv
<1> QED
  BY <1>1, <1>4, <1>5

\* A step of the worker that leaves the row and what was sent, as long as what
\* it takes in hand, or leaves, is agreed to.
LEMMA WorkerAgrees ==
    ASSUME KeptInv, Agreed' = Agreed, UNCHANGED <<row, clerks, sent, applied, restored>>,
           work' = Idle \/ (work'.why # "waiting" /\ work'.attempt \in Agreed)
    PROVE  PromiseInv' /\ PromiseStep
<1>0. ConsentInv /\ VerdictInv
  BY DEF KeptInv, PromiseInv
<1>1. \A d \in Clerks : IsAgreed(clerks[d])'
  BY <1>0 DEF ConsentInv, IsAgreed
<1>2. ConsentInv'
  BY <1>0, <1>1 DEF ConsentInv, Committed
<1>3. VerdictInv'
  BY <1>0 DEF VerdictInv, Idle
<1> QED
  BY <1>2, <1>3, PromiseStutters DEF PromiseInv

\* A step of the worker that begins an execution of a value agreed to.
LEMMA WorkerBegins ==
    ASSUME KeptInv, Agreed' = Agreed, UNCHANGED <<clerks, sent, applied, restored>>,
           row.state = "scheduled", row'.state = "executing", row'.value \in Agreed,
           work' = Idle \/ (work'.why # "waiting" /\ work'.attempt \in Agreed)
    PROVE  PromiseInv' /\ PromiseStep
<1>0. ConsentInv /\ VerdictInv
  BY DEF KeptInv, PromiseInv
<1>1. \A d \in Clerks : IsAgreed(clerks[d])'
  BY <1>0 DEF ConsentInv, IsAgreed
<1>2. ConsentInv'
  BY <1>0, <1>1 DEF ConsentInv, Agreed
<1>3. VerdictInv'
  BY <1>0 DEF VerdictInv, Idle
<1>4. Status = "open" /\ Status' = "executing" /\ Chosen' = row'.value
  BY DEF Status, Chosen, Begun, Final
<1>5. Promise!Begin(row'.value)
  BY <1>4 DEF Promise!Begin
<1>6. PromiseStep
  BY <1>5 DEF PromiseStep, Promise!PromiseNext
<1> QED
  BY <1>2, <1>3, <1>6 DEF PromiseInv

\* A step of the worker that records how the write ended.
LEMMA WorkerConcludes ==
    ASSUME KeptInv, Agreed' = Agreed, UNCHANGED <<clerks, sent, applied, restored>>,
           work' = Idle, row.state = "executing", row'.value = row.value, sent[row.value] = 1,
           row'.state = IF row.value \in applied THEN "executed" ELSE "failed"
    PROVE  PromiseInv' /\ PromiseStep
<1>0. ConsentInv /\ VerdictInv
  BY DEF KeptInv, PromiseInv
<1>1. \A d \in Clerks : IsAgreed(clerks[d])'
  BY <1>0 DEF ConsentInv, IsAgreed
<1>2. ConsentInv'
  BY <1>0, <1>1 DEF ConsentInv, Committed, Begun
<1>3. VerdictInv'
  BY <1>0 DEF VerdictInv, Idle
<1>4. /\ Status = "executing" /\ Status' = IF row.value \in applied THEN "executed" ELSE "failed"
      /\ Chosen' = row.value /\ Chosen = row.value
  BY DEF Status, Chosen, Begun
<1>5. Promise!Conclude
  BY <1>4 DEF Promise!Conclude
<1>6. PromiseStep
  BY <1>5 DEF PromiseStep, Promise!PromiseNext
<1> QED
  BY <1>2, <1>3, <1>6 DEF PromiseInv

\* Send: the one write, of the value chosen.
LEMMA SendPromise ==
    ASSUME KeptInv, Send
    PROVE  PromiseInv' /\ PromiseStep
<1> DEFINE v == work.held.value
<1>0. ProposalTypeOK /\ SentInv /\ WorkInv /\ ConsentInv /\ VerdictInv
  BY DEF KeptInv, PromiseInv, LifeInv
<1>1. /\ work # Idle /\ work.why = "sending" /\ v = work.attempt /\ v \in Values
      /\ row.state = "executing" /\ row.value = v
  BY <1>0 DEF Send, Idle, WorkInv, ProposalTypeOK, WorkState
<1>2. \A u \in Values : sent[u] = 0
  BY <1>0, <1>1 DEF SentInv
<1>3. /\ sent' = [sent EXCEPT ![v] = sent[v] + 1]
      /\ applied' \in {applied, applied \cup {v}}
      /\ UNCHANGED <<row, clerks, attempts, restored>>
  BY DEF Send, undoVars
<1>4. work'.why = "waiting" /\ work'.attempt = work.attempt /\ work'.held = work.held
  <2>1. work \in [why : {"gates", "cleared", "sending", "waiting"}, attempt : Values,
                  held : ProposalRow]
    BY <1>0, <1>1 DEF ProposalTypeOK, WorkState
  <2>2. work' = [work EXCEPT !.why = "waiting"]
    BY DEF Send
  <2> QED
    BY <2>1, <2>2
<1> HIDE DEF v
<1>5. sent' = [sent EXCEPT ![v] = 1] /\ sent'[v] = 1
  <2>1. sent \in [Values -> Nat] /\ v \in Values /\ sent[v] + 1 = 1
    BY <1>0, <1>1, <1>2 DEF ProposalTypeOK
  <2>2. sent' = [sent EXCEPT ![v] = sent[v] + 1]
    BY <1>3
  <2> QED
    BY <2>1, <2>2
<1>6. Agreed' = Agreed
  BY <1>3 DEF Agreed
<1>7. \A d \in Clerks : IsAgreed(clerks[d])'
  BY <1>0, <1>3, <1>6 DEF ConsentInv, IsAgreed
<1>8. ConsentInv'
  BY <1>0, <1>1, <1>3, <1>4, <1>6, <1>7 DEF ConsentInv, Committed
<1>9. VerdictInv'
  <2>1. \A u \in applied' : u = v
    BY <1>0, <1>2, <1>3 DEF VerdictInv, ProposalTypeOK
  <2> QED
    BY <1>1, <1>3, <1>4, <1>5, <2>1 DEF VerdictInv, v
<1>10. Status = "executing" /\ Status' = "executing" /\ Chosen = v /\ Chosen' = v
  BY <1>1, <1>3 DEF Status, Chosen, Begun
<1>11. Promise!Write
  BY <1>2, <1>3, <1>5, <1>6, <1>10 DEF Promise!Write
<1>12. PromiseStep
  BY <1>11 DEF PromiseStep, Promise!PromiseNext
<1> QED
  BY <1>8, <1>9, <1>12 DEF PromiseInv

\* StartRunning: the execution begins with the value of the attempt.
LEMMA StartPromise ==
    ASSUME KeptInv, StartRunning
    PROVE  PromiseInv' /\ PromiseStep
<1> DEFINE began == [work.held EXCEPT !.state = "executing"]
<1>0. ProposalTypeOK /\ WorkInv /\ ConsentInv
  BY DEF KeptInv, PromiseInv, LifeInv
<1>1. /\ work # Idle /\ work.why = "cleared" /\ row.state \notin Begun
      /\ work.held.value = work.attempt /\ work.attempt \in Agreed
      /\ work.held \in ProposalRow
      /\ work \in [why : {"gates", "cleared", "sending", "waiting"}, attempt : Values,
                   held : ProposalRow]
  BY <1>0 DEF StartRunning, Idle, WorkInv, ConsentInv, ProposalTypeOK, WorkState
<1>2. began \in ProposalRow /\ began.state = "executing" /\ began.value = work.attempt
  BY <1>1, RowCopied, RowStates
<1>3. /\ UNCHANGED <<clerks, sent, applied, restored>>
      /\ \/ /\ Admits(row, began) /\ row' = began
            /\ attempts' = [attempts EXCEPT ![work.attempt] = "running"]
            /\ work' = [work EXCEPT !.why = "sending", !.held = began]
         \/ /\ work' = Idle /\ attempts' = [attempts EXCEPT ![work.attempt] = "unknown"]
            /\ UNCHANGED row
  BY DEF StartRunning, Leaves, undoVars
<1>4. Agreed' = Agreed
  BY <1>0, <1>1, <1>3, AgreedStays
<1>5. CASE work' = Idle /\ UNCHANGED row
  <2>1. UNCHANGED <<clerks, sent, applied, restored>>
    BY <1>3
  <2> QED
    BY <1>4, <1>5, <2>1, WorkerAgrees
<1> HIDE DEF began
<1>6. CASE Admits(row, began) /\ row' = began
           /\ work' = [work EXCEPT !.why = "sending", !.held = began]
  <2>1. row.state = "scheduled"
    BY <1>0, <1>1, <1>2, <1>6, AdmitsTheEnd DEF ProposalTypeOK, Begun
  <2>2. work'.why = "sending" /\ work'.attempt = work.attempt
    BY <1>1, <1>6
  <2> QED
    BY <1>1, <1>2, <1>3, <1>4, <1>6, <2>1, <2>2, WorkerBegins
<1> QED
  BY <1>3, <1>5, <1>6

\* Answer: the row tells what the platform answered, or nothing.
LEMMA AnswerPromise ==
    ASSUME KeptInv, Answer
    PROVE  PromiseInv' /\ PromiseStep
<1> DEFINE v == work.held.value
<1>0. ProposalTypeOK /\ WorkInv /\ ConsentInv /\ VerdictInv
  BY DEF KeptInv, PromiseInv, LifeInv
<1>1. /\ work # Idle /\ work.why = "waiting" /\ row.state = "executing" /\ row.value = v
      /\ sent[v] = 1 /\ work.attempt \in Agreed /\ work.held \in ProposalRow
  BY <1>0 DEF Answer, Idle, WorkInv, ConsentInv, VerdictInv, ProposalTypeOK, WorkState
<1>2. /\ work' = Idle /\ UNCHANGED <<clerks, sent, applied, restored>>
      /\ \E outcome \in {"executed", "failed", "unknown"} :
            attempts' = [attempts EXCEPT ![work.attempt] = outcome]
      /\ \/ UNCHANGED row
         \/ v \in applied /\ row' = [work.held EXCEPT !.state = "executed"]
         \/ v \notin applied /\ row' = [work.held EXCEPT !.state = "failed"]
  BY DEF Answer, Records, Leaves, undoVars
<1>3. Agreed' = Agreed
  BY <1>0, <1>1, <1>2, AgreedStays
<1>4. \A outcome \in {"executed", "failed"} :
          /\ [work.held EXCEPT !.state = outcome].state = outcome
          /\ [work.held EXCEPT !.state = outcome].value = v
  BY <1>1, RowCopied, RowStates
<1>5. CASE UNCHANGED row
  <2>1. work' = Idle /\ UNCHANGED <<clerks, sent, applied, restored>>
    BY <1>2
  <2> QED
    BY <1>3, <1>5, <2>1, WorkerAgrees
<1>6. CASE \/ v \in applied /\ row' = [work.held EXCEPT !.state = "executed"]
           \/ v \notin applied /\ row' = [work.held EXCEPT !.state = "failed"]
  <2>1. row'.value = v /\ row'.state = IF v \in applied THEN "executed" ELSE "failed"
    BY <1>4, <1>6
  <2> QED
    BY <1>1, <1>2, <1>3, <2>1, WorkerConcludes
<1> QED
  BY <1>2, <1>5, <1>6

\* Reconcile: an execution begun is taken up, and one the platform took is told.
LEMMA ReconcilePromise ==
    ASSUME KeptInv, NEW v \in Values, Reconcile(v)
    PROVE  PromiseInv' /\ PromiseStep
<1> DEFINE held == [row EXCEPT !.state = "executing"]
<1>0. ProposalTypeOK /\ SentInv /\ ConsentInv /\ VerdictInv /\ row \in ProposalRow
  BY DEF KeptInv, PromiseInv, LifeInv, ProposalTypeOK
<1>1. /\ work' = Idle /\ UNCHANGED <<clerks, sent, applied, restored>>
      /\ v \in Agreed
      /\ \E outcome \in {"executed", "unknown"} : attempts' = [attempts EXCEPT ![v] = outcome]
  BY DEF Reconcile, Unresolved, Agreed, undoVars
<1>2. Agreed' = Agreed
  BY <1>0, <1>1, AgreedStays
<1>3. \/ UNCHANGED row
      \/ /\ row.state \in {"scheduled", "executing"}
         /\ row' = [held EXCEPT !.state = IF v \in applied THEN "executed" ELSE @]
  BY DEF Reconcile
<1>4. held \in ProposalRow /\ held.state = "executing" /\ held.value = row.value
  BY <1>0, RowCopied, RowStates
<1> HIDE DEF held
<1>5. v \in applied => sent[v] = 1 /\ row.state \in Begun /\ row.value = v
  BY <1>0 DEF VerdictInv, SentInv
<1>6. CASE UNCHANGED row
  <2>1. work' = Idle /\ UNCHANGED <<clerks, sent, applied, restored>>
    BY <1>1
  <2> QED
    BY <1>2, <1>6, <2>1, WorkerAgrees
<1>7. CASE row.state \in {"scheduled", "executing"} /\ v \in applied
           /\ row' = [held EXCEPT !.state = "executed"]
  <2>1. row.state = "executing" /\ sent[row.value] = 1 /\ row.value \in applied
    BY <1>5, <1>7 DEF Begun
  <2>2. row'.state = "executed" /\ row'.value = row.value
    BY <1>4, <1>7, RowCopied, RowStates
  <2> QED
    BY <1>1, <1>2, <2>1, <2>2, WorkerConcludes
<1>8. CASE row.state \in {"scheduled", "executing"} /\ v \notin applied
           /\ row' = [held EXCEPT !.state = held.state]
  <2>1. row' = held
    BY <1>4, <1>8 DEF ProposalRow
  <2>2. CASE row.state = "scheduled"
    <3>1. row'.value \in Agreed /\ row'.state = "executing"
      BY <1>0, <1>4, <2>1, <2>2 DEF ConsentInv, Committed
    <3>2. work' = Idle /\ UNCHANGED <<clerks, sent, applied, restored>>
      BY <1>1
    <3> QED
      BY <1>2, <2>2, <3>1, <3>2, WorkerBegins
  <2>3. CASE row.state = "executing"
    <3>1. row' = row
      BY <1>0, <2>1, <2>3 DEF held, ProposalRow
    <3> QED
      BY <1>6, <3>1
  <2> QED
    BY <1>8, <2>2, <2>3
<1> QED
  BY <1>3, <1>6, <1>7, <1>8

\* The execution cycle.
LEMMA WorkerPromise ==
    ASSUME KeptInv, ExecutionCycle
    PROVE  PromiseInv' /\ PromiseStep
<1>0. /\ ProposalTypeOK /\ ConsentInv /\ work \in WorkState
      /\ work # Idle => work.attempt \in Agreed
  BY DEF KeptInv, PromiseInv, ProposalTypeOK, ConsentInv
<1>1. ASSUME NEW v \in Values, GatesRead(v) PROVE PromiseInv' /\ PromiseStep
  <2>1. /\ v \in Agreed /\ UNCHANGED <<row, clerks, sent, applied, restored>>
        /\ \/ work' = [why |-> "gates", attempt |-> v, held |-> row] /\ UNCHANGED attempts
           \/ work' = Idle /\ attempts' = [attempts EXCEPT ![v] = "failed"]
    BY <1>1 DEF GatesRead, Leaves, Agreed, undoVars
  <2>2. Agreed' = Agreed
    BY <1>0, <2>1, AgreedStays DEF Agreed
  <2>3. work' = Idle \/ (work'.why = "gates" /\ work'.attempt \in Agreed)
    BY <2>1
  <2>4. UNCHANGED <<row, clerks, sent, applied, restored>>
    BY <2>1
  <2> QED
    BY <2>2, <2>3, <2>4, WorkerAgrees
<1>2. CASE GatesPass
  <2>1. work # Idle /\ work.attempt \in Agreed
        /\ work \in [why : {"gates", "cleared", "sending", "waiting"}, attempt : Values,
                     held : ProposalRow]
    BY <1>0, <1>2 DEF GatesPass, Idle, WorkState
  <2>2. /\ UNCHANGED <<row, clerks, sent, applied, restored>>
        /\ \/ /\ work' = [work EXCEPT !.why = "cleared"]
              /\ attempts' = [attempts EXCEPT ![work.attempt] = "reserved"]
           \/ work' = Idle /\ attempts' = [attempts EXCEPT ![work.attempt] = "failed"]
    BY <1>2 DEF GatesPass, Leaves, undoVars
  <2>3. Agreed' = Agreed
    BY <1>0, <2>1, <2>2, AgreedStays
  <2>4. work' = Idle \/ (work'.why = "cleared" /\ work'.attempt \in Agreed)
    <3>1. [work EXCEPT !.why = "cleared"].why = "cleared"
          /\ [work EXCEPT !.why = "cleared"].attempt = work.attempt
      BY <2>1
    <3> QED
      BY <2>1, <2>2, <3>1
  <2>5. UNCHANGED <<row, clerks, sent, applied, restored>>
    BY <2>2
  <2> QED
    BY <2>3, <2>4, <2>5, WorkerAgrees
<1>3. CASE WorkerDies
  <2>1. work' = Idle /\ UNCHANGED <<row, clerks, attempts, sent, applied, restored>>
    BY <1>3 DEF WorkerDies, undoVars
  <2>2. Agreed' = Agreed
    BY <2>1 DEF Agreed
  <2> QED
    BY <2>1, <2>2, WorkerAgrees
<1> QED
  BY <1>1, <1>2, <1>3, SendPromise, StartPromise, AnswerPromise, ReconcilePromise
  DEF ExecutionCycle

\* Every step of a proposal is a step of the promise, or none.
LEMMA ProposalNextPromise ==
    ASSUME KeptInv, [ProposalNext]_proposalVars
    PROVE  PromiseInv' /\ PromiseStep
<1>1. CASE UNCHANGED proposalVars
  <2>1. /\ UNCHANGED <<row, clerks, attempts, work, sent, applied, restored>>
        /\ Agreed' = Agreed
    BY <1>1 DEF proposalVars, execVars, undoVars, Agreed
  <2>2. ConsentInv' /\ VerdictInv'
    BY <2>1 DEF KeptInv, PromiseInv, ConsentInv, IsAgreed, Committed, VerdictInv
  <2> QED
    BY <2>1, <2>2, PromiseStutters DEF PromiseInv
<1>2. CASE ExecutionCycle
  BY <1>2, WorkerPromise
<1>3. ASSUME NEW c \in Clerks, Clerk(c)
      PROVE  PromiseInv' /\ PromiseStep
  <2>1. ReadsRow(c) \/ SavesRow(c) \/ ApproveSaves(c) \/ UndoCommits(c)
    BY <1>3 DEF Clerk, ReadsRow
  <2> QED
    BY <2>1, ReadersPromise, SavesPromise, ApprovePromise, UndoPromise
<1>4. CASE (\E k \in Cards : PostCard(k)) \/ TimePasses \/ ExpireDue
  BY <1>4, ClockPromise
<1> QED
  BY <1>1, <1>2, <1>3, <1>4 DEF ProposalNext

\* At first nothing is agreed to, sent or restored.
LEMMA ProposalInitPromise == ProposalInit => PromiseInv /\ Promise!PromiseInit
<1> SUFFICES ASSUME ProposalInit PROVE PromiseInv /\ Promise!PromiseInit
  OBVIOUS
<1>1. ConsentInv /\ VerdictInv
  BY DEF ProposalInit, ConsentInv, IsAgreed, Committed, Begun, VerdictInv, Idle
<1>2. Status = "open" /\ Chosen = Nobody /\ Agreed = {}
  BY DEF ProposalInit, Status, Chosen, Agreed, Begun, Final
<1>3. Promise!PromiseInit
  BY <1>2 DEF ProposalInit, Promise!PromiseInit
<1> QED
  BY <1>1, <1>3 DEF PromiseInv

\* What comes of a proposal is what ProposalPromise says (ImplementsPromise): a
\* value the owner approved is written, once in all; the row tells whether the
\* platform took it; what is closed stays closed, and what was executed is undone
\* once; for any handlers, cards and values, any copies saved late, and any
\* deaths of the worker.
THEOREM ProposalImplementsPromise == ProposalSpec => ImplementsPromise
<1>1. ProposalInit => KeptInv /\ Promise!PromiseInit
  BY ProposalInitInv, ProposalInitPromise DEF KeptInv
<1>2. KeptInv /\ [ProposalNext]_proposalVars => KeptInv'
  BY ProposalNextInv, ProposalNextPromise DEF KeptInv
<1>3. KeptInv /\ [ProposalNext]_proposalVars => [Promise!PromiseNext]_(Promise!promiseVars)
  BY ProposalNextPromise DEF PromiseStep
<1> QED
  BY <1>1, <1>2, <1>3, PTL DEF ProposalSpec, ImplementsPromise, Promise!PromiseSpec

-----------------------------------------------------------------------------
(* RuntimeJobs: types. *)

\* A draft is at most one revision past the bound of the edits before it becomes
\* a proposal, and a job that has never run, or has been asked for again, counts
\* no attempt; a valid lease is a lease.
JobsInv ==
    /\ \A r \in Followed : drafts[r].revision = MaxEdits + 2 => drafts[r].proposal
    /\ \A r \in Followed : runs[r] = jobs[r].attempts /\ jobs[r].attempts <= MaxAttempts
    /\ \A r \in Followed : jobs[r].state \in {"absent", "queued"} => jobs[r].attempts = 0
    /\ \A r \in Followed : proposed[r] = IF drafts[r].proposal THEN 1 ELSE 0

\* A promoted draft is a draft, with a proposal and the content it had.
LEMMA PromotedDraft ==
    ASSUME NEW draft \in DraftState, draft.revision = MaxEdits + 2 => draft.proposal
    PROVE  /\ Promoted(draft) \in DraftState /\ Promoted(draft).proposal
           /\ Promoted(draft).content = draft.content
<1>1. MaxEdits \in Nat \ {0}
  BY RuntimeAssumption
<1>2. CASE draft.proposal
  BY <1>2 DEF Promoted
<1>3. CASE ~draft.proposal
  <2>1. draft.revision + 1 \in DraftRevisions
    BY <1>1, <1>3 DEF DraftState, DraftRevisions
  <2> QED
    BY <1>3, <2>1 DEF Promoted, DraftState
<1> QED
  BY <1>2, <1>3

\* A report that is saved leaves the draft with its outcome and its proposals.
LEMMA SavedDraft ==
    ASSUME NEW draft \in DraftState, Saved(draft).revision <= MaxEdits + 1
    PROVE  /\ Saved(draft) \in DraftState
           /\ Saved(draft).revision # MaxEdits + 2
           /\ Saved(draft).proposal = draft.proposal
           /\ draft.content # "campaign" \/ Saved(draft) = draft
<1>1. MaxEdits \in Nat \ {0}
  BY RuntimeAssumption
<1>2. CASE draft.content = "campaign"
  <2>1. draft.revision \in Nat /\ draft.revision <= MaxEdits + 1
    BY <1>2 DEF Saved, DraftState, DraftRevisions
  <2> QED
    BY <1>1, <1>2, <2>1 DEF Saved
<1>3. CASE draft.content # "campaign"
  <2>1. /\ Saved(draft) = [draft EXCEPT !.revision = @ + 1, !.content = "campaign"]
        /\ draft.revision \in Nat
    BY <1>3 DEF Saved, DraftState, DraftRevisions
  <2>2. /\ Saved(draft) = [revision |-> draft.revision + 1, content |-> "campaign",
                              proposal |-> draft.proposal]
        /\ draft.proposal \in BOOLEAN
    BY <2>1 DEF DraftState
  <2>3. draft.revision + 1 <= MaxEdits + 1
    BY <2>2
  <2>4. draft.revision + 1 \in DraftRevisions /\ draft.revision + 1 # MaxEdits + 2
    BY <1>1, <2>1, <2>3 DEF DraftRevisions
  <2> QED
    BY <1>3, <2>2, <2>4 DEF DraftState, DraftContents
<1> QED
  BY <1>2, <1>3

\* A job that changes state keeps the rest.
LEMMA JobMoved ==
    ASSUME NEW job \in JobState, NEW state \in JobStates
    PROVE  LET new == [job EXCEPT !.state = state]
           IN  /\ new \in JobState /\ new.state = state /\ new.valid = job.valid
               /\ new.lease = job.lease /\ new.attempts = job.attempts
BY DEF JobState

\* A job that stops loses the validity of its lease.
LEMMA JobStopped ==
    ASSUME NEW job \in JobState, NEW state \in JobStates
    PROVE  LET new == [job EXCEPT !.state = state, !.valid = FALSE]
           IN  /\ new \in JobState /\ new.state = state /\ ~new.valid
               /\ new.attempts = job.attempts
BY DEF JobState

\* Revoking its connector takes a job its lease.
LEMMA JobRevoked ==
    ASSUME NEW job \in JobState, NEW state \in JobStates
    PROVE  LET new == [job EXCEPT !.state = state, !.lease = NoOne, !.valid = FALSE]
           IN  /\ new \in JobState /\ new.state = state /\ ~new.valid
               /\ new.attempts = job.attempts
BY DEF JobState

\* A job that is retried starts anew.
LEMMA JobRetried ==
    ASSUME NEW job \in JobState, NEW state \in JobStates
    PROVE  LET new == [job EXCEPT !.state = state, !.holder = NoOne, !.lease = NoOne,
                                  !.valid = FALSE, !.attempts = 0]
           IN  new \in JobState /\ new.state = state /\ ~new.valid /\ new.attempts = 0
BY DEF JobState

\* What the four steps that only touch jobs have in common: the jobs keep their
\* attempts, or start anew with none.
LEMMA JobsOnly ==
    ASSUME RuntimeTypeOK, JobsInv, NEW newJobs \in [Followed -> JobState], jobs' = newJobs,
           UNCHANGED <<plan, workspace, drafts, connectors, bridges, inbox, proposed>>,
           runs' \in [Followed -> Nat],
           \A r \in Followed :
              /\ newJobs[r].valid => jobs[r].valid /\ newJobs[r].lease = jobs[r].lease
              /\ \/ newJobs[r].attempts = jobs[r].attempts /\ runs'[r] = runs[r]
                    /\ (newJobs[r].state \in {"absent", "queued"} => jobs[r].attempts = 0)
                 \/ newJobs[r].attempts = 0 /\ runs'[r] = 0
    PROVE  RuntimeTypeOK' /\ JobsInv'
<1>1. MaxAttempts \in Nat
  BY RuntimeAssumption
<1> QED
  BY <1>1 DEF RuntimeTypeOK, JobsInv

\* No job is a job in the state absent.
LEMMA NoJobTyped == NoJob \in JobState
<1>1. MaxEdits \in Nat /\ "absent" \in JobStates /\ NoOne \in JobResults
  BY RuntimeAssumption DEF JobStates, JobResults
<1> QED
  BY <1>1 DEF NoJob, JobState

\* At first there is no job and no draft.
LEMMA RuntimeInitInv == RuntimeInit => RuntimeTypeOK /\ JobsInv
<1> SUFFICES ASSUME RuntimeInit PROVE RuntimeTypeOK /\ JobsInv
  OBVIOUS
<1>1. MaxEdits \in Nat \ {0} /\ MaxAttempts \in Nat \ {0}
  BY RuntimeAssumption
<1>2. NoJob \in JobState /\ NoDraft \in DraftState
  BY <1>1, NoJobTyped DEF NoDraft, DraftState, DraftRevisions, DraftContents
<1>3. RuntimeTypeOK
  <2>1. jobs \in [Followed -> JobState] /\ drafts \in [Followed -> DraftState]
        /\ bridges \in [Bridges -> BridgeState]
    BY <1>2 DEF RuntimeInit, BridgeState
  <2>2. proposed \in [Followed -> Nat] /\ runs \in [Followed -> Nat]
        /\ \A r \in Followed : ~jobs[r].valid
    BY DEF RuntimeInit, NoJob
  <2> QED
    BY <1>1, <2>1, <2>2 DEF RuntimeInit, RuntimeTypeOK
<1> QED
  BY <1>1, <1>3 DEF RuntimeInit, JobsInv, NoJob, NoDraft

\* Every transaction, and every loss, keeps the types and the counts.
LEMMA RuntimeNextInv ==
    RuntimeTypeOK /\ JobsInv /\ [RuntimeNext]_runtimeVars => RuntimeTypeOK' /\ JobsInv'
<1> SUFFICES ASSUME RuntimeTypeOK, JobsInv, [RuntimeNext]_runtimeVars
             PROVE  RuntimeTypeOK' /\ JobsInv'
  OBVIOUS
<1>0. MaxEdits \in Nat \ {0} /\ MaxAttempts \in Nat \ {0} /\ Followed \subseteq Revisions
  BY RuntimeAssumption
<1>1. CASE UNCHANGED runtimeVars
  BY <1>1 DEF RuntimeTypeOK, JobsInv, runtimeVars
<1>2. CASE WorkspaceChanges \/ \E r \in Revisions : PlanChanges(r)
  BY <1>0, <1>2 DEF WorkspaceChanges, PlanChanges, RuntimeTypeOK, JobsInv
<1>3. CASE ApprovePlan
  <2> DEFINE new == [r \in Followed |->
          IF r = plan
          THEN IF jobs[r].state = "absent" THEN [NoJob EXCEPT !.state = "queued"] ELSE jobs[r]
          ELSE IF jobs[r].state \in Unfinished
          THEN [jobs[r] EXCEPT !.state = "cancelled"] ELSE jobs[r]]
  <2>1. ASSUME NEW r \in Followed
        PROVE  /\ new[r] \in JobState
               /\ new[r].valid => jobs[r].valid /\ new[r].lease = jobs[r].lease
               /\ new[r].attempts = jobs[r].attempts
               /\ new[r].state \in {"absent", "queued"} => jobs[r].attempts = 0
    <3>1. jobs[r] \in JobState
      BY DEF RuntimeTypeOK
    <3>2. CASE new[r] = jobs[r]
      BY <3>1, <3>2 DEF JobsInv
    <3>3. CASE new[r] = [NoJob EXCEPT !.state = "queued"] /\ jobs[r].state = "absent"
      <4>1. NoJob \in JobState /\ NoJob.attempts = 0 /\ ~NoJob.valid /\ "queued" \in JobStates
        BY <1>0, NoJobTyped DEF NoJob, JobStates, Unfinished
      <4> HIDE DEF new
      <4> QED
        BY <3>3, <4>1, JobMoved DEF JobsInv
    <3>4. CASE new[r] = [jobs[r] EXCEPT !.state = "cancelled"]
      <4> HIDE DEF new
      <4> QED
        BY <3>1, <3>4, JobMoved DEF JobStates
    <3> QED
      BY <3>2, <3>3, <3>4
  <2>2. jobs' = new /\ new \in [Followed -> JobState] /\ runs' \in [Followed -> Nat] /\ runs' = runs
        /\ UNCHANGED <<plan, workspace, drafts, connectors, bridges, inbox, proposed>>
    BY <1>3, <2>1 DEF ApprovePlan, RuntimeTypeOK
  <2> HIDE DEF new
  <2> QED
    BY <2>1, <2>2, JobsOnly
<1>4. ASSUME NEW r \in Followed, Retry(r) \/ Cancel(r) \/ LeaseLapses(r)
      PROVE  RuntimeTypeOK' /\ JobsInv'
  <2>1. jobs[r] \in JobState
    BY DEF RuntimeTypeOK
  <2>2. PICK job : /\ jobs' = [jobs EXCEPT ![r] = job]
                   /\ \/ job = [jobs[r] EXCEPT !.state = "queued", !.holder = NoOne,
                                               !.lease = NoOne, !.valid = FALSE, !.attempts = 0]
                         /\ runs' = [runs EXCEPT ![r] = 0]
                      \/ job = [jobs[r] EXCEPT !.state = "cancelled", !.valid = FALSE]
                         /\ runs' = runs
                      \/ job = [jobs[r] EXCEPT !.valid = FALSE] /\ runs' = runs
    BY <1>4 DEF Retry, Cancel, LeaseLapses, RuntimeTypeOK
  <2>3. /\ job \in JobState /\ ~job.valid
        /\ \/ job.attempts = 0 /\ runs' = [runs EXCEPT ![r] = 0]
           \/ job.attempts = jobs[r].attempts /\ job.state # "queued" /\ runs' = runs
              /\ job.state # "absent"
           \/ job.attempts = jobs[r].attempts /\ job.state = jobs[r].state /\ runs' = runs
    <3>1. CASE /\ job = [jobs[r] EXCEPT !.state = "queued", !.holder = NoOne, !.lease = NoOne,
                                        !.valid = FALSE, !.attempts = 0]
               /\ runs' = [runs EXCEPT ![r] = 0]
      <4>1. "queued" \in JobStates
        BY DEF JobStates, Unfinished
      <4> QED
        BY <2>1, <3>1, <4>1, JobRetried
    <3>2. CASE job = [jobs[r] EXCEPT !.state = "cancelled", !.valid = FALSE] /\ runs' = runs
      BY <2>1, <3>2, JobStopped DEF JobStates
    <3>3. CASE job = [jobs[r] EXCEPT !.valid = FALSE] /\ runs' = runs
      BY <2>1, <3>3 DEF JobState
    <3> QED
      BY <2>2, <3>1, <3>2, <3>3
  <2>4. runs' \in [Followed -> Nat]
    BY <2>3 DEF RuntimeTypeOK
  <2>5. UNCHANGED <<plan, workspace, drafts, connectors, bridges, inbox, proposed>>
    BY <1>4 DEF Retry, Cancel, LeaseLapses
  <2> DEFINE new == [jobs EXCEPT ![r] = job]
  <2>6. new \in [Followed -> JobState] /\ new[r] = job /\ \A q \in Followed \ {r} : new[q] = jobs[q]
    BY <2>3 DEF RuntimeTypeOK
  <2>7. ASSUME NEW q \in Followed
        PROVE  /\ new[q].valid => jobs[q].valid /\ new[q].lease = jobs[q].lease
               /\ \/ new[q].attempts = jobs[q].attempts /\ runs'[q] = runs[q]
                     /\ (new[q].state \in {"absent", "queued"} => jobs[q].attempts = 0)
                  \/ new[q].attempts = 0 /\ runs'[q] = 0
    <3> HIDE DEF new
    <3>1. CASE q = r
      BY <2>3, <2>6, <3>1 DEF JobsInv, RuntimeTypeOK
    <3>2. CASE q # r
      BY <2>3, <2>6, <3>2 DEF JobsInv, RuntimeTypeOK
    <3> QED
      BY <3>1, <3>2
  <2>8. jobs' = new
    BY <2>2
  <2> HIDE DEF new
  <2> QED
    BY <2>4, <2>5, <2>6, <2>7, <2>8, JobsOnly
<1>5. ASSUME NEW r \in Followed, EditDraft(r)
      PROVE  RuntimeTypeOK' /\ JobsInv'
  <2>1. drafts[r] \in DraftState /\ drafts[r].revision \in 1..(MaxEdits - 1)
    BY <1>5 DEF EditDraft, RuntimeTypeOK
  <2> DEFINE draft == [drafts[r] EXCEPT !.revision = @ + 1, !.content = "edited"]
  <2>2. drafts[r].revision + 1 \in DraftRevisions /\ drafts[r].revision + 1 # MaxEdits + 2
        /\ "edited" \in DraftContents
    BY <1>0, <2>1 DEF DraftRevisions, DraftContents
  <2>4. draft \in DraftState /\ draft.revision # MaxEdits + 2 /\ draft.proposal = drafts[r].proposal
    <3> DEFINE n == drafts[r].revision + 1
    <3>1. draft = [drafts[r] EXCEPT !.revision = n, !.content = "edited"]
      OBVIOUS
    <3>2. n \in DraftRevisions /\ n # MaxEdits + 2
      BY <2>2
    <3> HIDE DEF draft, n
    <3> QED
      BY <2>1, <2>2, <3>1, <3>2 DEF DraftState
  <2>5. drafts' = [drafts EXCEPT ![r] = draft]
        /\ UNCHANGED <<plan, workspace, jobs, connectors, bridges, inbox, proposed, runs>>
    BY <1>5 DEF EditDraft
  <2> HIDE DEF draft
  <2> QED
    BY <2>4, <2>5 DEF RuntimeTypeOK, JobsInv
<1>6. ASSUME NEW r \in Followed, PrepareDraft(r)
      PROVE  RuntimeTypeOK' /\ JobsInv'
  <2>1. drafts[r] \in DraftState /\ Promoted(drafts[r]) \in DraftState
        /\ Promoted(drafts[r]).proposal
    BY PromotedDraft DEF RuntimeTypeOK, JobsInv
  <2>2. drafts' = [drafts EXCEPT ![r] = Promoted(drafts[r])]
        /\ proposed' = [proposed EXCEPT ![r] = proposed[r] + ProposalsOf(drafts[r])]
        /\ UNCHANGED <<plan, workspace, jobs, connectors, bridges, inbox, runs>>
    BY <1>6 DEF PrepareDraft
  <2>3. ProposalsOf(drafts[r]) \in Nat /\ proposed[r] + ProposalsOf(drafts[r]) = 1
    BY DEF ProposalsOf, JobsInv
  <2> QED
    BY <2>1, <2>2, <2>3 DEF RuntimeTypeOK, JobsInv
<1>7. ASSUME NEW b \in Bridges, Revoke(b)
      PROVE  RuntimeTypeOK' /\ JobsInv'
  <2> DEFINE new == [r \in Followed |->
          IF jobs[r].holder = b /\ jobs[r].state = "running"
          THEN [jobs[r] EXCEPT !.state = "failed", !.lease = NoOne, !.valid = FALSE]
          ELSE jobs[r]]
  <2>1. ASSUME NEW r \in Followed
        PROVE  /\ new[r] \in JobState
               /\ new[r].valid => jobs[r].valid /\ new[r].lease = jobs[r].lease
               /\ new[r].attempts = jobs[r].attempts
               /\ new[r].state \in {"absent", "queued"} => jobs[r].attempts = 0
    <3>1. jobs[r] \in JobState
      BY DEF RuntimeTypeOK
    <3>2. CASE new[r] = jobs[r]
      BY <3>1, <3>2 DEF JobsInv
    <3>3. CASE new[r] = [jobs[r] EXCEPT !.state = "failed", !.lease = NoOne, !.valid = FALSE]
      <4>1. "failed" \in JobStates
        BY DEF JobStates, Unfinished
      <4>2. LET job == [jobs[r] EXCEPT !.state = "failed", !.lease = NoOne, !.valid = FALSE]
            IN  /\ job \in JobState /\ job.state = "failed" /\ ~job.valid
                /\ job.attempts = jobs[r].attempts
        BY <3>1, <4>1, JobRevoked
      <4> HIDE DEF new
      <4> QED
        BY <3>3, <4>2
    <3> QED
      BY <3>2, <3>3
  <2>2. jobs' = new /\ new \in [Followed -> JobState]
        /\ UNCHANGED <<plan, workspace, drafts, bridges, inbox, proposed, runs>>
    BY <1>7, <2>1 DEF Revoke
  <2>3. connectors' \subseteq Bridges
    BY <1>7 DEF Revoke, RuntimeTypeOK
  <2> HIDE DEF new
  <2> QED
    BY <2>1, <2>2, <2>3 DEF RuntimeTypeOK, JobsInv
<1>8. ASSUME NEW b \in Bridges,
             AsksForWork(b) \/ Heartbeat(b) \/ GivesUp(b) \/ BridgeDies(b)
      PROVE  RuntimeTypeOK' /\ JobsInv'
  <2>1. bridges' \in [Bridges -> BridgeState]
        /\ UNCHANGED <<plan, workspace, jobs, drafts, connectors, inbox, proposed, runs>>
    BY <1>8 DEF AsksForWork, Heartbeat, GivesUp, BridgeDies, RuntimeTypeOK, BridgeState
  <2> QED
    BY <2>1 DEF RuntimeTypeOK, JobsInv
<1>9. ASSUME NEW b \in Bridges, Claim(b)
      PROVE  RuntimeTypeOK' /\ JobsInv'
  <2> DEFINE swept == [r \in Followed |->
          IF GivenUp(r) THEN [jobs[r] EXCEPT !.state = "failed"] ELSE jobs[r]]
  <2>1. ASSUME NEW r \in Followed
        PROVE  /\ swept[r] \in JobState
               /\ swept[r].valid => swept[r].lease \in Leases
               /\ swept[r].attempts = jobs[r].attempts
               /\ swept[r].state \in {"absent", "queued"} => jobs[r].attempts = 0
               /\ Claimable(r) => swept[r] = jobs[r]
    <3>1. jobs[r] \in JobState /\ (jobs[r].valid => jobs[r].lease \in Leases)
      BY DEF RuntimeTypeOK
    <3>2. CASE ~GivenUp(r)
      BY <3>1, <3>2 DEF JobsInv
    <3>3. CASE GivenUp(r)
      <4>1. swept[r] = [jobs[r] EXCEPT !.state = "failed"]
        BY <3>3
      <4>2. "failed" \in JobStates /\ ~Claimable(r)
        BY <3>3 DEF JobStates, Unfinished, Claimable
      <4> HIDE DEF swept
      <4> QED
        BY <3>1, <4>1, <4>2, JobMoved
    <3> QED
      BY <3>2, <3>3
  <2>2. swept \in [Followed -> JobState]
    BY <2>1
  <2>3. UNCHANGED <<plan, workspace, drafts, connectors, inbox, proposed>>
    BY <1>9 DEF Claim
  <2>4. CASE jobs' = swept /\ bridges' = [bridges EXCEPT ![b] = Resting] /\ UNCHANGED runs
    <3>1. bridges' \in [Bridges -> BridgeState]
      BY <2>4 DEF RuntimeTypeOK, BridgeState
    <3> HIDE DEF swept
    <3> QED
      BY <2>1, <2>2, <2>3, <2>4, <3>1 DEF RuntimeTypeOK, JobsInv
  <2>5. ASSUME NEW r \in Followed, Claimable(r), jobs' = [swept EXCEPT ![r].state = "cancelled"],
               bridges' = [bridges EXCEPT ![b] = Resting], UNCHANGED runs
        PROVE  RuntimeTypeOK' /\ JobsInv'
    <3>1. bridges' \in [Bridges -> BridgeState]
      BY <2>5 DEF RuntimeTypeOK, BridgeState
    <3> DEFINE job == [swept[r] EXCEPT !.state = "cancelled"]
    <3>3. /\ job \in JobState /\ job.attempts = jobs[r].attempts /\ job.state = "cancelled"
          /\ job.valid => job.lease \in Leases
      <4> HIDE DEF swept
      <4>1. "cancelled" \in JobStates
        BY DEF JobStates
      <4> QED
        BY <2>1, <4>1, JobMoved
    <3>4. jobs' = [swept EXCEPT ![r] = job]
      BY <2>5
    <3> HIDE DEF swept, job
    <3>5. jobs' \in [Followed -> JobState] /\ jobs'[r] = job
          /\ \A q \in Followed \ {r} : jobs'[q] = swept[q]
      BY <2>2, <3>3, <3>4
    <3> QED
      BY <2>1, <2>3, <2>5, <3>1, <3>3, <3>5 DEF RuntimeTypeOK, JobsInv
  <2>6. ASSUME NEW r \in Followed, NEW lease \in Leases \ Remembered, Claimable(r),
               jobs' = [swept EXCEPT ![r] = [swept[r] EXCEPT
                       !.state = "running", !.holder = b, !.lease = lease, !.valid = TRUE,
                       !.attempts = @ + 1, !.context = workspace]],
               runs' = [runs EXCEPT ![r] = @ + 1],
               \/ bridges' = [bridges EXCEPT ![b] =
                                 [pc |-> "working", job |-> r, lease |-> lease,
                                  saw |-> drafts[r].revision]]
               \/ bridges' = [bridges EXCEPT ![b] = Resting]
        PROVE  RuntimeTypeOK' /\ JobsInv'
    <3>1. bridges' \in [Bridges -> BridgeState]
      BY <2>6 DEF RuntimeTypeOK, BridgeState, DraftState
    <3> DEFINE job == [jobs[r] EXCEPT !.state = "running", !.holder = b, !.lease = lease,
                          !.valid = TRUE, !.attempts = @ + 1, !.context = workspace]
    <3>2. /\ jobs[r] \in JobState /\ workspace \in 0..MaxEdits /\ swept[r] = jobs[r]
          /\ jobs[r].attempts \in Nat /\ runs[r] = jobs[r].attempts
      <4>1. jobs[r] \in JobState /\ workspace \in 0..MaxEdits
        BY <1>0 DEF RuntimeTypeOK
      <4> HIDE DEF swept
      <4> QED
        BY <2>1, <2>6, <4>1 DEF JobState, JobsInv
    <3>3. jobs[r].attempts < MaxAttempts
      BY <1>0, <2>6, <3>2 DEF Claimable, GivenUp, JobsInv
    <3>5. /\ job \in JobState /\ job.state = "running" /\ job.lease = lease
          /\ job.attempts = jobs[r].attempts + 1
      <4> DEFINE n == jobs[r].attempts + 1
      <4>1. job = [jobs[r] EXCEPT !.state = "running", !.holder = b, !.lease = lease,
                          !.valid = TRUE, !.attempts = n, !.context = workspace]
        OBVIOUS
      <4>2. n \in Nat /\ "running" \in JobStates
        BY <3>2 DEF JobStates, Unfinished
      <4> HIDE DEF job, swept, n
      <4>3. /\ job \in JobState /\ job.state = "running" /\ job.lease = lease /\ job.attempts = n
        BY <3>2, <4>1, <4>2 DEF JobState
      <4> QED
        BY <4>3 DEF n
    <3>6. jobs' = [swept EXCEPT ![r] = job]
      BY <2>6, <3>2
    <3> HIDE DEF swept, job
    <3>7. jobs' \in [Followed -> JobState] /\ jobs'[r] = job
          /\ \A q \in Followed \ {r} : jobs'[q] = swept[q]
      BY <2>2, <3>5, <3>6
    <3>8. runs' \in [Followed -> Nat] /\ runs'[r] = jobs[r].attempts + 1
          /\ \A q \in Followed \ {r} : runs'[q] = runs[q]
      BY <2>6, <3>2 DEF RuntimeTypeOK
    <3>9. /\ job.attempts = jobs[r].attempts + 1 /\ job.state = "running" /\ job.lease \in Leases
          /\ job.attempts <= MaxAttempts
      BY <1>0, <3>2, <3>3, <3>5
    <3>10. RuntimeTypeOK'
      BY <2>1, <2>3, <3>1, <3>7, <3>8, <3>9 DEF RuntimeTypeOK
    <3>11. JobsInv'
      BY <2>1, <2>3, <3>7, <3>8, <3>9 DEF JobsInv
    <3> QED
      BY <3>10, <3>11
  <2> HIDE DEF swept
  <2>7. \/ jobs' = swept /\ bridges' = [bridges EXCEPT ![b] = Resting] /\ UNCHANGED runs
        \/ \E r \in Followed :
              /\ Claimable(r) /\ jobs' = [swept EXCEPT ![r].state = "cancelled"]
              /\ bridges' = [bridges EXCEPT ![b] = Resting] /\ UNCHANGED runs
        \/ \E r \in Followed, lease \in Leases \ Remembered :
              /\ Claimable(r)
              /\ jobs' = [swept EXCEPT ![r] = [swept[r] EXCEPT
                       !.state = "running", !.holder = b, !.lease = lease, !.valid = TRUE,
                       !.attempts = @ + 1, !.context = workspace]]
              /\ runs' = [runs EXCEPT ![r] = @ + 1]
              /\ \/ bridges' = [bridges EXCEPT ![b] =
                                 [pc |-> "working", job |-> r, lease |-> lease,
                                  saw |-> drafts[r].revision]]
                 \/ bridges' = [bridges EXCEPT ![b] = Resting]
    BY <1>9 DEF Claim, swept
  <2> QED
    BY <2>4, <2>5, <2>6, <2>7
<1>10. ASSUME NEW b \in Bridges, ReportAgain(b) \/ \E outcome \in JobOutcomes : Finishes(b, outcome)
       PROVE  RuntimeTypeOK' /\ JobsInv'
  <2>1. bridges[b] \in BridgeState
    BY DEF RuntimeTypeOK
  <2>2. PICK body \in ReportBody :
            /\ inbox' = inbox \cup {Message(b, body)}
            /\ bridges' \in {bridges, [bridges EXCEPT ![b] =
                                [pc |-> "reporting", lease |-> body.lease, body |-> body]]}
    <3>1. CASE ReportAgain(b)
      BY <2>1, <3>1 DEF ReportAgain, BridgeState, Resting
    <3>2. ASSUME NEW outcome \in JobOutcomes, Finishes(b, outcome)
          PROVE  \E body \in ReportBody :
                    /\ inbox' = inbox \cup {Message(b, body)}
                    /\ bridges' = [bridges EXCEPT ![b] =
                                [pc |-> "reporting", lease |-> body.lease, body |-> body]]
      <4>1. bridges[b] \in [pc : {"working"}, job : Followed, lease : Leases, saw : DraftRevisions]
        BY <2>1, <3>2 DEF Finishes, BridgeState, Resting
      <4> DEFINE body == [job |-> bridges[b].job, lease |-> bridges[b].lease, outcome |-> outcome,
                          saw |-> IF outcome = "campaign" THEN bridges[b].saw ELSE 0]
      <4>2. body \in ReportBody
        BY <1>0, <4>1 DEF ReportBody, DraftRevisions
      <4>3. /\ inbox' = inbox \cup {Message(b, body)}
            /\ bridges' = [bridges EXCEPT ![b] =
                                [pc |-> "reporting", lease |-> body.lease, body |-> body]]
        BY <3>2 DEF Finishes
      <4> HIDE DEF body
      <4> QED
        BY <4>2, <4>3
    <3> QED
      BY <1>10, <3>1, <3>2
  <2>3. UNCHANGED <<plan, workspace, jobs, drafts, connectors, proposed, runs>>
    BY <1>10 DEF ReportAgain, Finishes
  <2>4. [pc |-> "reporting", lease |-> body.lease, body |-> body] \in BridgeState
    BY DEF ReportBody, BridgeState
  <2>5. bridges' \in [Bridges -> BridgeState] /\ inbox' \subseteq [from : Bridges, body : ReportBody]
    BY <2>2, <2>4 DEF RuntimeTypeOK, Message
  <2> QED
    BY <2>3, <2>5 DEF RuntimeTypeOK, JobsInv
<1>11. ASSUME NEW m \in inbox, Lost(m) \/ ReportChangesNothing(m)
       PROVE  RuntimeTypeOK' /\ JobsInv'
  <2>1. bridges' \in [Bridges -> BridgeState] /\ inbox' \subseteq inbox
        /\ UNCHANGED <<plan, workspace, jobs, drafts, connectors, proposed, runs>>
    BY <1>11 DEF Lost, ReportChangesNothing, Answers, RuntimeTypeOK, BridgeState
  <2> QED
    BY <2>1 DEF RuntimeTypeOK, JobsInv
<1>12. ASSUME NEW m \in inbox, ReportBlocked(m)
       PROVE  RuntimeTypeOK' /\ JobsInv'
  <2> DEFINE q == m.body.job
  <2>1. /\ q \in Followed /\ jobs[q] \in JobState
        /\ bridges' \in [Bridges -> BridgeState] /\ inbox' \subseteq inbox
        /\ UNCHANGED <<plan, workspace, drafts, connectors, proposed, runs>>
        /\ jobs' = [jobs EXCEPT ![q] = [jobs[q] EXCEPT !.state = "blocked", !.valid = FALSE]]
    BY <1>12 DEF ReportBlocked, Answers, RuntimeTypeOK, BridgeState, ReportBody
  <2>2. [jobs[q] EXCEPT !.state = "blocked", !.valid = FALSE] \in JobState
    BY <2>1, JobStopped DEF JobStates, Unfinished
  <2> DEFINE job == [jobs[q] EXCEPT !.state = "blocked", !.valid = FALSE]
  <2>3. job.state = "blocked" /\ ~job.valid /\ job.attempts = jobs[q].attempts
    BY <2>1, JobStopped DEF JobStates, Unfinished
  <2>4. jobs' = [jobs EXCEPT ![q] = job] /\ job \in JobState
    BY <2>1, <2>2
  <2> HIDE DEF q, job
  <2> QED
    BY <2>1, <2>3, <2>4 DEF RuntimeTypeOK, JobsInv
<1>13. ASSUME NEW m \in inbox, ReportSettles(m)
       PROVE  RuntimeTypeOK' /\ JobsInv'
  <2> DEFINE q == m.body.job
             draft == Saved(drafts[q])
  <2>1. /\ q \in Followed /\ jobs[q] \in JobState /\ drafts[q] \in DraftState
        /\ m.body \in ReportBody
    BY DEF RuntimeTypeOK, ReportBody
  <2>2. /\ bridges' \in [Bridges -> BridgeState] /\ inbox' \subseteq inbox
        /\ UNCHANGED <<plan, workspace, connectors, runs>>
    BY <1>13 DEF ReportSettles, Answers, RuntimeTypeOK, BridgeState
  <2>3. PICK state \in {"failed", "blocked", "prepared"} :
            jobs' = [jobs EXCEPT ![q] = [jobs[q] EXCEPT !.state = state, !.valid = FALSE,
                                                       !.result = Digest(m.body)]]
    BY <1>13 DEF ReportSettles
  <2>4. \/ UNCHANGED <<drafts, proposed>>
        \/ /\ draft.revision <= MaxEdits + 1
           /\ \/ drafts' = [drafts EXCEPT ![q] = draft] /\ UNCHANGED proposed
              \/ /\ drafts' = [drafts EXCEPT ![q] = Promoted(draft)]
                 /\ proposed' = [proposed EXCEPT ![q] = @ + ProposalsOf(draft)]
    BY <1>13 DEF ReportSettles
  <2>5. draft.revision <= MaxEdits + 1 =>
            /\ draft \in DraftState /\ draft.revision # MaxEdits + 2
            /\ draft.proposal = drafts[q].proposal
    BY <2>1, SavedDraft
  <2>6. Digest(m.body) \in [outcome : JobOutcomes, saw : DraftRevisions]
    BY <2>1 DEF Digest, ReportBody
  <2>7. /\ jobs' \in [Followed -> JobState] /\ ~jobs'[q].valid
        /\ jobs'[q].attempts = jobs[q].attempts /\ jobs'[q].state = state
        /\ \A r \in Followed \ {q} : jobs'[r] = jobs[r]
    <3>1. state \in JobStates /\ Digest(m.body) \in JobResults
      BY <2>6 DEF JobStates, Unfinished, JobResults
    <3> DEFINE job == [jobs[q] EXCEPT !.state = state, !.valid = FALSE, !.result = Digest(m.body)]
    <3>2. /\ job \in JobState /\ ~job.valid /\ job.attempts = jobs[q].attempts
          /\ job.state = state
      <4> DEFINE result == Digest(m.body)
      <4>1. job = [jobs[q] EXCEPT !.state = state, !.valid = FALSE, !.result = result]
        OBVIOUS
      <4>2. result \in JobResults
        BY <3>1
      <4> HIDE DEF job, q, result
      <4> QED
        BY <2>1, <3>1, <4>1, <4>2 DEF JobState
    <3>4. jobs' = [jobs EXCEPT ![q] = job]
      BY <2>3
    <3> HIDE DEF job, q
    <3> QED
      BY <2>1, <3>2, <3>4 DEF RuntimeTypeOK
  <2>8. /\ drafts' \in [Followed -> DraftState] /\ proposed' \in [Followed -> Nat]
        /\ \A r \in Followed : drafts'[r].revision = MaxEdits + 2 => drafts'[r].proposal
        /\ \A r \in Followed : proposed'[r] = IF drafts'[r].proposal THEN 1 ELSE 0
    <3>1. CASE UNCHANGED <<drafts, proposed>>
      BY <3>1 DEF RuntimeTypeOK, JobsInv
    <3>2. CASE /\ draft.revision <= MaxEdits + 1
               /\ drafts' = [drafts EXCEPT ![q] = draft] /\ UNCHANGED proposed
      <4> HIDE DEF draft, q
      <4> QED
        BY <2>1, <2>5, <3>2 DEF RuntimeTypeOK, JobsInv
    <3>3. CASE /\ draft.revision <= MaxEdits + 1
               /\ drafts' = [drafts EXCEPT ![q] = Promoted(draft)]
               /\ proposed' = [proposed EXCEPT ![q] = @ + ProposalsOf(draft)]
      <4> HIDE DEF draft, q
      <4>1. Promoted(draft) \in DraftState /\ Promoted(draft).proposal
        BY <2>5, <3>3, PromotedDraft
      <4>2. proposed[q] + ProposalsOf(draft) = 1
        BY <2>1, <2>5, <3>3 DEF ProposalsOf, JobsInv
      <4> QED
        BY <2>1, <3>3, <4>1, <4>2 DEF RuntimeTypeOK, JobsInv
    <3> QED
      BY <2>4, <3>1, <3>2, <3>3
  <2> HIDE DEF q, draft
  <2>9. RuntimeTypeOK'
    BY <2>1, <2>2, <2>7, <2>8 DEF RuntimeTypeOK
  <2>10. JobsInv'
    BY <2>1, <2>2, <2>7, <2>8 DEF JobsInv
  <2> QED
    BY <2>9, <2>10
<1> QED
  BY <1>1, <1>2, <1>3, <1>4, <1>5, <1>6, <1>7, <1>8, <1>9, <1>10, <1>11, <1>12, <1>13
     DEF RuntimeNext, Bridge

\* The types and the counts hold in every reachable state.
LEMMA RuntimeInvariant == RuntimeSpec => [](RuntimeTypeOK /\ JobsInv)
<1> QED
  BY RuntimeInitInv, RuntimeNextInv, PTL DEF RuntimeSpec

\* A bridge, a job, a draft and a report never say anything but what the tables
\* and the protocol allow, and what still has a deadline has a lease.
THEOREM RuntimeTypes == RuntimeSpec => []RuntimeTypeOK
<1> QED
  BY RuntimeInvariant, PTL

\* A job is paid for MaxAttempts times at most from one request of the owner to
\* the next, for any number of bridges and whatever they lose: the count of its
\* runs is the count of attempts the claim compares.
THEOREM RuntimePaidRuns == RuntimeSpec => []PaidRunsAreBounded
<1>1. RuntimeTypeOK /\ JobsInv => PaidRunsAreBounded
  BY DEF JobsInv, PaidRunsAreBounded
<1> QED
  BY <1>1, RuntimeInvariant, PTL

\* A draft becomes one proposal, however many reports and promotions overlap.
THEOREM RuntimeOneProposal == RuntimeSpec => []OneProposalPerDraft
<1>1. RuntimeTypeOK /\ JobsInv => OneProposalPerDraft
  BY DEF JobsInv, OneProposalPerDraft
<1> QED
  BY <1>1, RuntimeInvariant, PTL

-----------------------------------------------------------------------------
(* RuntimeJobs: what the owner wrote. *)

\* Only a report that settles its job replaces what the owner wrote, and it has
\* seen that revision.
LEMMA EditIsSeen ==
    ASSUME RuntimeTypeOK, JobsInv, [RuntimeNext]_runtimeVars, NEW r \in Followed,
           drafts[r].content = "edited", drafts'[r].content # "edited"
    PROVE  \E m \in inbox \ inbox' : m.body.saw = drafts[r].revision
<1>1. drafts' # drafts
  OBVIOUS
<1>2. CASE \E q \in Followed : EditDraft(q)
  <2>1. PICK q \in Followed : EditDraft(q)
    BY <1>2
  <2>2. drafts' = [drafts EXCEPT ![q] = [drafts[q] EXCEPT !.revision = @ + 1,
                                                          !.content = "edited"]]
        /\ drafts[q] \in DraftState /\ drafts \in [Followed -> DraftState]
    BY <2>1 DEF EditDraft, RuntimeTypeOK
  <2>3. [drafts[q] EXCEPT !.revision = @ + 1, !.content = "edited"].content = "edited"
    BY <2>2 DEF DraftState
  <2> DEFINE draft == [drafts[q] EXCEPT !.revision = @ + 1, !.content = "edited"]
  <2>4. drafts' = [drafts EXCEPT ![q] = draft] /\ draft.content = "edited"
    BY <2>2, <2>3
  <2> HIDE DEF draft
  <2> QED
    BY <2>2, <2>4
<1>3. CASE \E q \in Followed : PrepareDraft(q)
  <2>1. PICK q \in Followed : PrepareDraft(q)
    BY <1>3
  <2>2. drafts' = [drafts EXCEPT ![q] = Promoted(drafts[q])] /\ drafts[q] \in DraftState
        /\ drafts \in [Followed -> DraftState]
    BY <2>1 DEF PrepareDraft, RuntimeTypeOK
  <2>3. Promoted(drafts[q]).content = drafts[q].content
    BY <2>2, PromotedDraft DEF JobsInv
  <2> QED
    BY <2>2, <2>3
<1>4. CASE \E m \in inbox : ReportSettles(m)
  <2>1. PICK m \in inbox : ReportSettles(m)
    BY <1>4
  <2> DEFINE q == m.body.job
             draft == Saved(drafts[q])
  <2>2. /\ q \in Followed /\ drafts[q] \in DraftState /\ m.body \in ReportBody
        /\ drafts \in [Followed -> DraftState] /\ inbox' = inbox \ {m}
    BY <2>1 DEF RuntimeTypeOK, ReportBody, ReportSettles, Answers
  <2>3. /\ m.body.outcome = "campaign" /\ draft.revision <= MaxEdits + 1
        /\ drafts' \in {[drafts EXCEPT ![q] = draft], [drafts EXCEPT ![q] = Promoted(draft)]}
        /\ ~Refuses(m) /\ ~SameReport(m) /\ jobs[q].context = workspace
    BY <1>1, <2>1 DEF ReportSettles
  <2>4. Saves(m, drafts[q])
    BY <2>3 DEF Refuses
  <2>5. draft \in DraftState /\ draft.revision # MaxEdits + 2
        /\ Promoted(draft).content = draft.content
        /\ (drafts[q].content # "campaign" \/ draft = drafts[q])
    <3>1. draft \in DraftState /\ draft.revision # MaxEdits + 2
          /\ (drafts[q].content # "campaign" \/ draft = drafts[q])
      BY <2>2, <2>3, SavedDraft
    <3> HIDE DEF draft
    <3> QED
      BY <3>1, PromotedDraft
  <2>6. q = r /\ draft.content # drafts[q].content
    <3> HIDE DEF draft, q
    <3> QED
      BY <2>2, <2>3, <2>5
  <2>7. drafts[q].revision = m.body.saw
    BY <2>4, <2>5, <2>6 DEF Saves
  <2> QED
    BY <2>2, <2>6, <2>7
<1>5. CASE ~(\/ \E q \in Followed : EditDraft(q) \/ PrepareDraft(q)
             \/ \E m \in inbox : ReportSettles(m))
  <2>1. UNCHANGED drafts
    BY <1>5 DEF RuntimeNext, runtimeVars, WorkspaceChanges, PlanChanges, ApprovePlan, Retry,
                Cancel, LeaseLapses, Revoke, BridgeDies, Bridge, AsksForWork, Claim, Heartbeat,
                ReportAgain, GivesUp, Finishes, Lost, ReportChangesNothing, ReportBlocked
  <2> QED
    BY <1>1, <2>1
<1> QED
  BY <1>2, <1>3, <1>4, <1>5

\* A model's report never replaces what the owner wrote into a draft after it
\* read it.
THEOREM RuntimeEditIsSeen == RuntimeSpec => OwnersEditIsSeen
<1> DEFINE Seen == \A r \in Followed :
                      drafts[r].content = "edited" /\ drafts'[r].content # "edited" =>
                          \E m \in inbox \ inbox' : m.body.saw = drafts[r].revision
<1>1. RuntimeTypeOK /\ JobsInv /\ [RuntimeNext]_runtimeVars => Seen
  BY EditIsSeen
<1>2. RuntimeTypeOK /\ JobsInv /\ [RuntimeNext]_runtimeVars => [Seen]_runtimeVars
  BY <1>1
<1> QED
  BY <1>2, RuntimeInvariant, PTL DEF RuntimeSpec, OwnersEditIsSeen

-----------------------------------------------------------------------------
(* AuditChain: what hangs on what. *)

\* The numbers in a hash.
Over(h) == {h[i][1] : i \in DOMAIN h}

\* A row numbered s hangs in the rows a transaction sees, some of them lost or
\* altered: its hash is over what it hung on, each with a lower number, and it
\* hung on the newest of the rows before it, if that is still there.
Hung(s, link, rows, gone) ==
    /\ link.hash = Append(link.prev, <<s, "written">>)
    /\ \A n \in Over(link.prev) : n < s /\ n \in DOMAIN rows \cup gone
    /\ link.prev = <<>> => \A t \in DOMAIN rows : ~ (t < s)
    /\ link.prev # <<>> =>
           LET p == link.prev[Len(link.prev)][1]
           IN  /\ \A t \in DOMAIN rows : t < s => t <= p
               /\ p \in DOMAIN rows => rows[p].hash = link.prev

Visible(w) == With(decisions, appends[w].rows)

\* The numbers go up: a number drawn is above all that its transaction wrote,
\* and below the next.
NumbersInv ==
    /\ \A t \in DOMAIN decisions \cup harmed : t < nextSeq
    /\ \A w \in Writers :
           /\ appends[w].drawn < nextSeq
           /\ \A s \in DOMAIN appends[w].rows :
                  s < nextSeq /\ (appends[w].drawn # 0 => s < appends[w].drawn)

\* As long as no two transactions have appended at once, every row hangs in the
\* log, what was drawn is above all of it, and the payload shows who altered.
ChainInv ==
    /\ \A v, w \in Writers : Appending(v) /\ Appending(w) => v = w
    /\ \A s \in DOMAIN decisions :
           /\ Hung(s, decisions[s], decisions, harmed)
           /\ decisions[s].payload = "written" <=> s \notin harmed
    /\ \A w \in Writers : appends[w].drawn # 0 =>
           \A t \in DOMAIN decisions \cup harmed : t < appends[w].drawn
    /\ \A w \in Writers : \A s \in DOMAIN appends[w].rows :
           /\ Hung(s, appends[w].rows[s], Visible(w), harmed)
           /\ appends[w].rows[s].payload = "written"
           /\ \A t \in DOMAIN decisions \cup harmed : t < s

-----------------------------------------------------------------------------
(* AuditChain: numbers and hashes. *)

\* A nonempty set of numbers has a least one.
LEMMA LeastNumber ==
    ASSUME NEW T, T \subseteq Nat, T # {}
    PROVE  \E x \in T : \A y \in T : x <= y
<1>1. IsWellFoundedOn(OpToRel(<, Nat), Nat)
  BY NatLessThanWellFounded
<1>2. PICK x \in T : \A y \in T : ~ (<<y, x>> \in OpToRel(<, Nat))
  BY <1>1, WFMin
<1>3. ASSUME NEW y \in T PROVE ~ (y < x)
  <2>1. y < x => <<y, x>> \in OpToRel(<, Nat)
    BY DEF OpToRel
  <2> QED BY <1>2, <2>1
<1> QED BY <1>3

\* And a greatest one if they are bounded: the one that is Newest.
LEMMA NewestIs ==
    ASSUME NEW T, T \subseteq Seqs, T # {}
    PROVE  Newest(T) \in T /\ \A y \in T : y <= Newest(T)
<1> DEFINE U == {u \in Nat : MaxSeq - u \in T}
<1>1. \A x \in T : x \in Nat /\ x <= MaxSeq /\ MaxSeq - x \in Nat /\ MaxSeq - (MaxSeq - x) = x
  BY AuditAssumption DEF Seqs
<1>2. \A x \in T : MaxSeq - x \in U
  BY <1>1
<1>3. U # {} /\ U \subseteq Nat
  BY <1>2
<1> HIDE DEF U
<1>4. PICK u \in U : \A v \in U : u <= v
  BY <1>3, LeastNumber
<1>5. u \in Nat /\ MaxSeq - u \in T
  BY <1>4 DEF U
<1>6. \A y \in T : y <= MaxSeq - u
  BY <1>1, <1>2, <1>4, <1>5, AuditAssumption
<1>7. \E s \in T : \A t \in T : t <= s
  BY <1>5, <1>6
<1> QED BY <1>7 DEF Newest

\* The rows of two tables, the second over the first.
LEMMA WithIs ==
    ASSUME NEW f, NEW g
    PROVE  /\ DOMAIN With(f, g) = DOMAIN f \cup DOMAIN g
           /\ \A s \in DOMAIN g : With(f, g)[s] = g[s]
           /\ \A s \in DOMAIN f : s \notin DOMAIN g => With(f, g)[s] = f[s]
BY DEF With

\* A hash made of another and a row.
LEMMA HashedIs ==
    ASSUME NEW h \in Hashes, NEW s \in Seqs
    PROVE  LET k == Append(h, <<s, "written">>)
           IN  /\ k \in Hashes /\ k[Len(k)] = <<s, "written">> /\ k # <<>>
               /\ Over(k) = Over(h) \cup {s}
<1> DEFINE k == Append(h, <<s, "written">>)
<1>1. <<s, "written">> \in Seqs \X {"written"} /\ Len(h) \in Nat /\ DOMAIN h = 1 .. Len(h)
  BY DEF Hashes
<1>2. k \in Hashes /\ Len(k) = Len(h) + 1 /\ k[Len(h) + 1] = <<s, "written">>
      /\ \A i \in 1 .. Len(h) : k[i] = h[i]
  BY <1>1 DEF Hashes
<1>3. DOMAIN k = 1 .. (Len(h) + 1) /\ Len(h) + 1 \in DOMAIN k
  BY <1>1, <1>2 DEF Hashes
<1>4. \A i \in DOMAIN k : i \in DOMAIN h \/ i = Len(h) + 1
  BY <1>1, <1>3
<1>5. DOMAIN h \subseteq DOMAIN k
  BY <1>1, <1>3
<1>6. Over(k) \subseteq Over(h) \cup {s}
  BY <1>1, <1>2, <1>4 DEF Over
<1>7. Over(h) \subseteq Over(k) /\ s \in Over(k)
  BY <1>1, <1>2, <1>3, <1>5 DEF Over
<1> QED BY <1>2, <1>3, <1>6, <1>7

\* A hash is over numbers, and over the last of them.
LEMMA OverIs ==
    ASSUME NEW h \in Hashes
    PROVE  /\ Over(h) \subseteq Seqs
           /\ h # <<>> => h[Len(h)][1] \in Over(h)
           /\ h = <<>> => Over(h) = {}
BY DEF Hashes, Over

\* Two hashes that end with their own rows tell their payloads.
LEMMA HashTells ==
    ASSUME NEW h \in Hashes, NEW s \in Seqs, NEW a, NEW b,
           Append(h, <<s, a>>) = Append(h, <<s, b>>)
    PROVE  a = b
<1> DEFINE A == Append(h, <<s, a>>)
           B == Append(h, <<s, b>>)
<1>1. h \in Seq((Seqs \X {"written"}) \cup {<<s, a>>, <<s, b>>}) /\ Len(h) \in Nat
  BY SeqMonotonic DEF Hashes
<1>2. A[Len(h) + 1] = <<s, a>> /\ B[Len(h) + 1] = <<s, b>>
  BY <1>1
<1> QED BY <1>2

\* The hash the trigger takes from the rows it sees.
LEMMA PreviousIs ==
    ASSUME NEW rows, DOMAIN rows \subseteq Seqs, \A s \in DOMAIN rows : RowTypeOK(s, rows[s])
    PROVE  /\ PreviousHash(rows) \in Hashes
           /\ DOMAIN rows = {} => PreviousHash(rows) = <<>>
           /\ DOMAIN rows # {} => /\ Newest(DOMAIN rows) \in DOMAIN rows
                                  /\ \A t \in DOMAIN rows : t <= Newest(DOMAIN rows)
                                  /\ PreviousHash(rows) = rows[Newest(DOMAIN rows)].hash
<1>1. CASE DOMAIN rows = {}
  BY <1>1 DEF PreviousHash, Hashes
<1>2. CASE DOMAIN rows # {}
  <2>1. /\ Newest(DOMAIN rows) \in DOMAIN rows
        /\ \A t \in DOMAIN rows : t <= Newest(DOMAIN rows)
    BY <1>2, NewestIs
  <2> QED BY <1>2, <2>1 DEF PreviousHash, RowTypeOK, DecisionRow
<1> QED BY <1>1, <1>2

-----------------------------------------------------------------------------
(* The steps. *)

\* What a transaction sees are rows.
LEMMA VisibleTypes ==
    ASSUME AuditTypeOK, NEW w \in Writers
    PROVE  /\ DOMAIN Visible(w) = DOMAIN decisions \cup DOMAIN appends[w].rows
           /\ DOMAIN Visible(w) \subseteq Seqs
           /\ \A s \in DOMAIN Visible(w) : RowTypeOK(s, Visible(w)[s])
           /\ \A s \in DOMAIN appends[w].rows : Visible(w)[s] = appends[w].rows[s]
           /\ \A s \in DOMAIN decisions :
                  s \notin DOMAIN appends[w].rows => Visible(w)[s] = decisions[s]
<1> DEFINE mine == appends[w].rows
<1>1. /\ DOMAIN Visible(w) = DOMAIN decisions \cup DOMAIN mine
      /\ \A s \in DOMAIN mine : Visible(w)[s] = mine[s]
      /\ \A s \in DOMAIN decisions : s \notin DOMAIN mine => Visible(w)[s] = decisions[s]
  BY WithIs DEF Visible
<1>2. /\ DOMAIN decisions \subseteq Seqs /\ DOMAIN mine \subseteq Seqs
      /\ \A s \in DOMAIN decisions : RowTypeOK(s, decisions[s])
      /\ \A s \in DOMAIN mine : RowTypeOK(s, mine[s])
  BY DEF AuditTypeOK
<1> HIDE DEF mine
<1>3. ASSUME NEW s \in DOMAIN Visible(w) PROVE RowTypeOK(s, Visible(w)[s])
  BY <1>1, <1>2
<1> QED BY <1>1, <1>2, <1>3 DEF mine

\* What a step makes of one transaction.
LEMMA AppendMoves ==
    ASSUME AuditTypeOK, NEW w \in Writers, NEW d, NEW rows,
           \/ appends' = [appends EXCEPT ![w].drawn = d] /\ rows = appends[w].rows
           \/ appends' = [appends EXCEPT ![w] = [drawn |-> d, rows |-> rows]]
    PROVE  /\ appends'[w].drawn = d /\ appends'[w].rows = rows
           /\ \A v \in Writers : v # w => appends'[v] = appends[v]
           /\ appends' = [v \in Writers |-> [drawn |-> appends'[v].drawn, rows |-> appends'[v].rows]]
<1>1. /\ DOMAIN appends = Writers
      /\ \A v \in Writers : appends[v] = [drawn |-> appends[v].drawn, rows |-> appends[v].rows]
  BY DEF AuditTypeOK
<1>2. appends' = [v \in Writers |-> IF v = w THEN [drawn |-> d, rows |-> rows] ELSE appends[v]]
  BY <1>1
<1> QED BY <1>1, <1>2

\* The row the trigger makes is a row.
LEMMA ChainedRow ==
    ASSUME AuditTypeOK, NEW w \in Writers, appends[w].drawn # 0
    PROVE  LET s == appends[w].drawn
               prev == PreviousHash(Visible(w))
           IN  RowTypeOK(s, [prev |-> prev, payload |-> "written",
                             hash |-> ExpectedHash(s, prev, "written")])
<1> DEFINE s == appends[w].drawn
           prev == PreviousHash(Visible(w))
<1>1. s \in Seqs
  BY DEF AuditTypeOK
<1>2. prev \in Hashes
  BY VisibleTypes, PreviousIs
<1>3. ExpectedHash(s, prev, "written") \in Hashes
      /\ ExpectedHash(s, prev, "written")[Len(ExpectedHash(s, prev, "written"))] = <<s, "written">>
  BY <1>1, <1>2, HashedIs DEF ExpectedHash
<1> QED BY <1>2, <1>3 DEF RowTypeOK, DecisionRow, Payloads

\* Types and numbers, step by step.
LEMMA AuditNextTypes ==
    AuditTypeOK /\ NumbersInv /\ [AuditNext]_auditVars => (AuditTypeOK /\ NumbersInv)'
<1> SUFFICES ASSUME AuditTypeOK, NumbersInv, [AuditNext]_auditVars
             PROVE  (AuditTypeOK /\ NumbersInv)'
  OBVIOUS
<1>0. /\ nextSeq \in 1 .. MaxSeq + 1 /\ MaxSeq \in Nat /\ Seqs = 1 .. MaxSeq
      /\ \A w \in Writers : appends[w].drawn \in {0} \cup Seqs
  BY AuditAssumption DEF AuditTypeOK, Seqs
<1>1. ASSUME NEW w \in Writers, DrawsSeq(w) PROVE (AuditTypeOK /\ NumbersInv)'
  <2>1. /\ appends'[w].drawn = nextSeq /\ appends'[w].rows = appends[w].rows
        /\ \A v \in Writers : v # w => appends'[v] = appends[v]
        /\ appends' = [v \in Writers |-> [drawn |-> appends'[v].drawn, rows |-> appends'[v].rows]]
    BY <1>1, AppendMoves DEF DrawsSeq
  <2>2. /\ nextSeq' = nextSeq + 1 /\ nextSeq <= MaxSeq /\ UNCHANGED <<decisions, harmed>>
        /\ overlapped' \in BOOLEAN
    BY <1>1 DEF DrawsSeq, AuditTypeOK
  <2>3. nextSeq \in Seqs /\ nextSeq' \in 1 .. MaxSeq + 1
    BY <1>0, <2>2
  <2>4. AuditTypeOK'
    BY <2>1, <2>2, <2>3 DEF AuditTypeOK
  <2>5. /\ \A t \in DOMAIN decisions \cup harmed : t \in Nat
        /\ \A v \in Writers : \A s \in DOMAIN appends[v].rows : s \in Nat
    BY <1>0 DEF AuditTypeOK
  <2>6. NumbersInv'
    BY <1>0, <2>1, <2>2, <2>5 DEF NumbersInv
  <2> QED BY <2>4, <2>6
<1>2. ASSUME NEW w \in Writers, Chains(w) PROVE (AuditTypeOK /\ NumbersInv)'
  <2> DEFINE s == appends[w].drawn
             link == [prev |-> PreviousHash(Visible(w)), payload |-> "written",
                     hash |-> ExpectedHash(s, PreviousHash(Visible(w)), "written")]
             rows == With(appends[w].rows, [t \in {s} |-> link])
  <2>0. s \in Seqs /\ s # 0
    BY <1>0, <1>2 DEF Chains
  <2>1. appends' = [appends EXCEPT ![w] = [drawn |-> 0, rows |-> rows]]
        /\ UNCHANGED <<decisions, nextSeq, overlapped, harmed>>
    BY <1>2 DEF Chains, Visible, AuditTypeOK
  <2>2. /\ appends'[w].drawn = 0 /\ appends'[w].rows = rows
        /\ \A v \in Writers : v # w => appends'[v] = appends[v]
        /\ appends' = [v \in Writers |-> [drawn |-> appends'[v].drawn, rows |-> appends'[v].rows]]
    BY <2>1, AppendMoves
  <2>3. RowTypeOK(s, link)
    BY <2>0, ChainedRow
  <2>4. /\ DOMAIN rows = DOMAIN appends[w].rows \cup {s} /\ rows[s] = link
        /\ \A t \in DOMAIN appends[w].rows : t # s => rows[t] = appends[w].rows[t]
    <3> DEFINE new == [t \in {s} |-> link]
               mine == appends[w].rows
    <3> HIDE DEF link
    <3>1. DOMAIN new = {s} /\ new[s] = link
      OBVIOUS
    <3>2. rows = With(mine, new)
      OBVIOUS
    <3> HIDE DEF new, rows, mine
    <3>3. /\ DOMAIN rows = DOMAIN mine \cup {s} /\ rows[s] = link
          /\ \A t \in DOMAIN mine : t # s => rows[t] = mine[t]
      <4>1. /\ DOMAIN With(mine, new) = DOMAIN mine \cup DOMAIN new
            /\ \A t \in DOMAIN new : With(mine, new)[t] = new[t]
            /\ \A t \in DOMAIN mine : t \notin DOMAIN new => With(mine, new)[t] = mine[t]
        BY WithIs
      <4> QED BY <3>1, <3>2, <4>1
    <3> QED BY <3>3 DEF mine
  <2> HIDE DEF link, rows
  <2>5. AuditTypeOK'
    BY <2>0, <2>1, <2>2, <2>3, <2>4 DEF AuditTypeOK
  <2>6. NumbersInv'
    BY <2>0, <2>1, <2>2, <2>4, <1>0 DEF NumbersInv
  <2> QED BY <2>5, <2>6
<1>3. ASSUME NEW w \in Writers, DecisionsCommit(w) \/ DecisionsRollBack(w)
      PROVE  (AuditTypeOK /\ NumbersInv)'
  <2>1. /\ appends'[w].drawn = 0 /\ appends'[w].rows = NoRows
        /\ \A v \in Writers : v # w => appends'[v] = appends[v]
        /\ appends' = [v \in Writers |-> [drawn |-> appends'[v].drawn, rows |-> appends'[v].rows]]
    BY <1>3, AppendMoves DEF DecisionsCommit, DecisionsRollBack, Closed
  <2>2. UNCHANGED <<nextSeq, overlapped, harmed>>
        /\ (decisions' = decisions \/ decisions' = Visible(w))
    BY <1>3 DEF DecisionsCommit, DecisionsRollBack, Visible
  <2>3. DOMAIN NoRows = {}
    BY DEF NoRows
  <2>4. /\ DOMAIN decisions' \subseteq Seqs
        /\ \A s \in DOMAIN decisions' : RowTypeOK(s, decisions'[s])
        /\ DOMAIN decisions' \subseteq DOMAIN decisions \cup DOMAIN appends[w].rows
    BY <2>2, VisibleTypes DEF AuditTypeOK
  <2>5. AuditTypeOK'
    BY <1>0, <2>1, <2>2, <2>3, <2>4 DEF AuditTypeOK
  <2>6. NumbersInv'
    BY <1>0, <2>1, <2>2, <2>3, <2>4 DEF NumbersInv
  <2> QED BY <2>5, <2>6
<1>4. ASSUME NEW s \in DOMAIN decisions, RowAltered(s) \/ RowLost(s)
      PROVE  (AuditTypeOK /\ NumbersInv)'
  <2>1. /\ UNCHANGED <<appends, nextSeq, overlapped>> /\ harmed' = harmed \cup {s}
        /\ DOMAIN decisions' \subseteq DOMAIN decisions
    BY <1>4 DEF RowAltered, RowLost
  <2>2. \A t \in DOMAIN decisions' : RowTypeOK(t, decisions'[t])
    <3>1. CASE RowAltered(s)
      <4>1. \A t \in DOMAIN decisions' :
                \/ decisions'[t] = decisions[t]
                \/ decisions'[t] = [decisions[t] EXCEPT !.payload = "altered"]
        BY <3>1 DEF RowAltered
      <4>2. ASSUME NEW t, NEW link, RowTypeOK(t, link)
            PROVE  RowTypeOK(t, [link EXCEPT !.payload = "altered"])
        BY <4>2 DEF RowTypeOK, DecisionRow, Payloads
      <4>3. \A t \in DOMAIN decisions' : RowTypeOK(t, decisions[t])
        BY <2>1 DEF AuditTypeOK
      <4> QED BY <4>1, <4>2, <4>3
    <3>2. CASE RowLost(s)
      BY <3>2 DEF RowLost, AuditTypeOK
    <3> QED BY <1>4, <3>1, <3>2
  <2>3. AuditTypeOK'
    BY <2>1, <2>2 DEF AuditTypeOK
  <2>4. NumbersInv'
    BY <2>1 DEF NumbersInv
  <2> QED BY <2>3, <2>4
<1>5. ASSUME UNCHANGED auditVars PROVE (AuditTypeOK /\ NumbersInv)'
  BY <1>5 DEF auditVars, AuditTypeOK, NumbersInv
<1> QED BY <1>1, <1>2, <1>3, <1>4, <1>5 DEF AuditNext

\* A row stays hung when rows below it are lost, and when others come above it.
LEMMA HungStays ==
    ASSUME NEW s \in Nat, NEW link, link.prev \in Hashes, NEW rows, NEW gone, Hung(s, link, rows, gone),
           NEW left, NEW lost,
           \A n : n < s /\ n \in DOMAIN rows \cup gone => n \in DOMAIN left \cup lost,
           \A n \in DOMAIN left : n < s => n \in DOMAIN rows /\ left[n].hash = rows[n].hash
    PROVE  Hung(s, link, left, lost)
<1>1. \A n \in Over(link.prev) : n < s /\ n \in DOMAIN left \cup lost
  BY DEF Hung
<1>2. CASE link.prev = <<>>
  BY <1>1, <1>2 DEF Hung
<1>3. CASE link.prev # <<>>
  <2> DEFINE p == link.prev[Len(link.prev)][1]
  <2>1. p \in Over(link.prev)
    BY <1>3, OverIs
  <2>2. p < s
    BY <1>1, <2>1
  <2>3. /\ \A t \in DOMAIN rows : t < s => t <= p
        /\ p \in DOMAIN rows => rows[p].hash = link.prev
    BY <1>3 DEF Hung
  <2> HIDE DEF p
  <2>4. /\ \A t \in DOMAIN left : t < s => t <= p
        /\ p \in DOMAIN left => left[p].hash = link.prev
    BY <2>2, <2>3
  <2> QED BY <1>1, <1>3, <2>4 DEF Hung, p
<1> QED BY <1>2, <1>3

\* A new row over all that its transaction sees is hung in it.
LEMMA HungNew ==
    ASSUME NEW rows, DOMAIN rows \subseteq Seqs, \A t \in DOMAIN rows : RowTypeOK(t, rows[t]),
           NEW gone, \A t \in DOMAIN rows : Hung(t, rows[t], rows, gone),
           NEW s \in Seqs, \A t \in DOMAIN rows : t < s,
           NEW link, link.prev = PreviousHash(rows), link.hash = ExpectedHash(s, link.prev, "written")
    PROVE  Hung(s, link, rows, gone)
<1>0. link.hash = Append(link.prev, <<s, "written">>)
  BY DEF ExpectedHash
<1>1. CASE DOMAIN rows = {}
  BY <1>0, <1>1, PreviousIs, OverIs DEF Hung
<1>2. CASE DOMAIN rows # {}
  <2> DEFINE p == Newest(DOMAIN rows)
  <2>1. p \in DOMAIN rows /\ (\A t \in DOMAIN rows : t <= p) /\ link.prev = rows[p].hash
    BY <1>2, PreviousIs
  <2> HIDE DEF p
  <2>2. /\ rows[p].prev \in Hashes /\ p \in Seqs /\ p < s
        /\ rows[p].hash = Append(rows[p].prev, <<p, "written">>)
        /\ \A n \in Over(rows[p].prev) : n < p /\ n \in DOMAIN rows \cup gone
    BY <2>1 DEF RowTypeOK, DecisionRow, Hung
  <2>3. /\ Over(link.prev) = Over(rows[p].prev) \cup {p} /\ link.prev # <<>>
        /\ link.prev[Len(link.prev)][1] = p
    <3>1. link.prev = Append(rows[p].prev, <<p, "written">>)
      BY <2>1, <2>2
    <3>2. link.prev[Len(link.prev)] = <<p, "written">> /\ link.prev # <<>>
          /\ Over(link.prev) = Over(rows[p].prev) \cup {p}
      BY <2>2, <3>1, HashedIs
    <3> QED BY <3>2
  <2>4. \A n \in Over(link.prev) : n < s /\ n \in DOMAIN rows \cup gone
    <3>1. Over(rows[p].prev) \subseteq Nat /\ p \in Nat /\ s \in Nat
      BY <2>2, OverIs DEF Seqs
    <3> QED BY <2>1, <2>2, <2>3, <3>1
  <2> QED BY <1>0, <2>1, <2>3, <2>4 DEF Hung
<1> QED BY <1>1, <1>2

\* While no two transactions append at once, the chain holds, step by step.
LEMMA AuditNextChain ==
    AuditTypeOK /\ NumbersInv /\ (~ overlapped => ChainInv) /\ [AuditNext]_auditVars
        => (~ overlapped => ChainInv)'
<1> SUFFICES ASSUME AuditTypeOK, NumbersInv, ~ overlapped => ChainInv, [AuditNext]_auditVars,
                    ~ overlapped'
             PROVE  ChainInv'
  OBVIOUS
<1>a. ~ overlapped /\ ChainInv
  BY DEF AuditNext, DrawsSeq, Chains, DecisionsCommit, DecisionsRollBack, RowAltered, RowLost,
         auditVars, AuditTypeOK
<1>b. /\ DOMAIN decisions \subseteq Nat /\ harmed \subseteq Nat /\ nextSeq \in Nat /\ Seqs \subseteq Nat
      /\ \A v \in Writers : DOMAIN appends[v].rows \subseteq Nat /\ appends[v].drawn \in Nat
  BY AuditAssumption DEF AuditTypeOK, Seqs
<1>c. \A s \in DOMAIN decisions : decisions[s].prev \in Hashes
  BY DEF AuditTypeOK, RowTypeOK, DecisionRow
<1>d. \A v \in Writers : \A s \in DOMAIN appends[v].rows : appends[v].rows[s].prev \in Hashes
  BY DEF AuditTypeOK, RowTypeOK, DecisionRow
<1>e. DOMAIN NoRows = {} /\ Closed.drawn = 0 /\ Closed.rows = NoRows
  BY DEF NoRows, Closed
<1>1. ASSUME NEW w \in Writers, DrawsSeq(w) PROVE ChainInv'
  <2>1. /\ appends'[w].drawn = nextSeq /\ appends'[w].rows = appends[w].rows
        /\ \A v \in Writers : v # w => appends'[v] = appends[v]
    BY <1>1, AppendMoves DEF DrawsSeq
  <2>2. UNCHANGED <<decisions, harmed>>
        /\ \A v \in Writers \ {w} : ~ Appending(v)
    BY <1>1 DEF DrawsSeq
  <2>3. \A v \in Writers : appends'[v].rows = appends[v].rows /\ Visible(v)' = Visible(v)
    BY <2>1, <2>2 DEF Visible
  <2>4. \A v \in Writers \ {w} : ~ Appending(v)'
    BY <2>1, <2>2 DEF Appending
  <2>5. \A v \in Writers : appends'[v].drawn # 0 =>
            \A t \in DOMAIN decisions \cup harmed : t < appends'[v].drawn
    BY <1>a, <2>1 DEF ChainInv, NumbersInv
  <2> QED BY <1>a, <2>2, <2>3, <2>4, <2>5 DEF ChainInv
<1>2. ASSUME NEW w \in Writers, Chains(w) PROVE ChainInv'
  <2> DEFINE s == appends[w].drawn
             link == [prev |-> PreviousHash(Visible(w)), payload |-> "written",
                     hash |-> ExpectedHash(s, PreviousHash(Visible(w)), "written")]
             mine == appends[w].rows
             new == [t \in {s} |-> link]
             rows == With(mine, new)
  <2>0. s \in Seqs /\ s # 0
    BY <1>2 DEF Chains, AuditTypeOK
  <2>1. appends' = [appends EXCEPT ![w] = [drawn |-> 0, rows |-> rows]]
        /\ UNCHANGED <<decisions, nextSeq, overlapped, harmed>>
    BY <1>2 DEF Chains, Visible, AuditTypeOK
  <2>2. /\ appends'[w].drawn = 0 /\ appends'[w].rows = rows
        /\ \A v \in Writers : v # w => appends'[v] = appends[v]
    BY <2>1, AppendMoves
  <2>r. /\ link.prev = PreviousHash(Visible(w)) /\ link.payload = "written"
        /\ link.hash = ExpectedHash(s, link.prev, "written")
    OBVIOUS
  <2> HIDE DEF link
  <2>3. /\ DOMAIN rows = DOMAIN mine \cup {s} /\ rows[s] = link
        /\ \A t \in DOMAIN mine : t # s => rows[t] = mine[t]
    <3>1. DOMAIN new = {s} /\ new[s] = link
      OBVIOUS
    <3>2. rows = With(mine, new)
      OBVIOUS
    <3> HIDE DEF new, rows, mine
    <3>3. /\ DOMAIN With(mine, new) = DOMAIN mine \cup DOMAIN new
          /\ \A t \in DOMAIN new : With(mine, new)[t] = new[t]
          /\ \A t \in DOMAIN mine : t \notin DOMAIN new => With(mine, new)[t] = mine[t]
      BY WithIs
    <3> QED BY <3>1, <3>2, <3>3
  <2>4. \A t \in DOMAIN mine : t < s
    BY <2>0 DEF NumbersInv
  <2>5. \A t \in DOMAIN decisions \cup harmed : t < s
    BY <1>a, <2>0 DEF ChainInv
  <2>6. /\ DOMAIN Visible(w) = DOMAIN decisions \cup DOMAIN mine
        /\ DOMAIN Visible(w) \subseteq Seqs
        /\ \A t \in DOMAIN Visible(w) : RowTypeOK(t, Visible(w)[t])
        /\ \A t \in DOMAIN mine : Visible(w)[t] = mine[t]
        /\ \A t \in DOMAIN decisions : t \notin DOMAIN mine => Visible(w)[t] = decisions[t]
    BY VisibleTypes
  <2>7. /\ DOMAIN Visible(w)' = DOMAIN decisions \cup DOMAIN rows
        /\ \A t \in DOMAIN rows : Visible(w)'[t] = rows[t]
        /\ \A t \in DOMAIN decisions : t \notin DOMAIN rows => Visible(w)'[t] = decisions[t]
    <3>1. Visible(w)' = With(decisions, rows)
      BY <2>1, <2>2 DEF Visible
    <3> HIDE DEF rows
    <3>2. /\ DOMAIN With(decisions, rows) = DOMAIN decisions \cup DOMAIN rows
          /\ \A t \in DOMAIN rows : With(decisions, rows)[t] = rows[t]
          /\ \A t \in DOMAIN decisions :
                 t \notin DOMAIN rows => With(decisions, rows)[t] = decisions[t]
      BY WithIs
    <3> QED BY <3>1, <3>2
  <2> HIDE DEF rows, mine
  <2>8. \A t \in DOMAIN Visible(w) : t # s /\ t < s /\ Visible(w)'[t] = Visible(w)[t]
    BY <1>b, <2>0, <2>3, <2>4, <2>5, <2>6, <2>7 DEF mine
  <2>9. \A t \in DOMAIN Visible(w) : Hung(t, Visible(w)[t], Visible(w), harmed)
    <3>1. ASSUME NEW t \in DOMAIN mine
          PROVE  Hung(t, Visible(w)[t], Visible(w), harmed)
      BY <1>a, <2>6 DEF ChainInv, mine
    <3>2. ASSUME NEW t \in DOMAIN decisions, t \notin DOMAIN mine
          PROVE  Hung(t, Visible(w)[t], Visible(w), harmed)
      <4>1. Hung(t, decisions[t], decisions, harmed) /\ decisions[t].prev \in Hashes /\ t \in Nat
        BY <1>a, <1>b, <1>c DEF ChainInv
      <4>2. \A n \in DOMAIN mine : n \in Nat /\ t < n
        BY <1>a, <1>b DEF ChainInv, mine
      <4>3. \A n \in DOMAIN Visible(w) :
                n < t => n \in DOMAIN decisions /\ Visible(w)[n].hash = decisions[n].hash
        BY <1>b, <2>6, <4>1, <4>2
      <4>4. Hung(t, decisions[t], Visible(w), harmed)
        BY <2>6, <4>1, <4>3, HungStays
      <4> QED BY <2>6, <3>2, <4>4
    <3> QED BY <2>6, <3>1, <3>2
  <2>10. Hung(s, link, Visible(w), harmed)
    <3>1. \A t \in DOMAIN Visible(w) : t < s
      BY <2>8
    <3> HIDE DEF s
    <3> QED BY <2>0, <2>6, <2>9, <2>r, <3>1, HungNew
  <2>11. ASSUME NEW t \in DOMAIN rows
         PROVE  /\ Hung(t, rows[t], Visible(w)', harmed)
                /\ rows[t].payload = "written" /\ \A u \in DOMAIN decisions \cup harmed : u < t
    <3>1. \A n \in DOMAIN Visible(w)' : n \in DOMAIN Visible(w) \/ n = s
      BY <2>3, <2>6, <2>7
    <3>2. \A n \in DOMAIN Visible(w) : n \in DOMAIN Visible(w)'
      BY <2>3, <2>6, <2>7
    <3>3. CASE t = s
      <4>1. \A n \in DOMAIN Visible(w)' :
                n < s => n \in DOMAIN Visible(w) /\ Visible(w)'[n].hash = Visible(w)[n].hash
        BY <1>b, <2>0, <2>8, <3>1
      <4>2. link.prev \in Hashes /\ s \in Nat
        BY <1>b, <2>0, <2>6, <2>r, PreviousIs
      <4>3. Hung(s, link, Visible(w)', harmed)
        BY <2>10, <3>2, <4>1, <4>2, HungStays
      <4> QED BY <2>3, <2>5, <2>r, <3>3, <4>3
    <3>4. CASE t # s
      <4>1. t \in DOMAIN mine /\ rows[t] = mine[t] /\ t < s /\ t \in Nat
        BY <1>b, <2>3, <2>4, <3>4 DEF mine
      <4>2. /\ Hung(t, mine[t], Visible(w), harmed) /\ mine[t].prev \in Hashes
            /\ mine[t].payload = "written" /\ \A u \in DOMAIN decisions \cup harmed : u < t
        BY <1>a, <1>d, <4>1 DEF ChainInv, mine
      <4>3. \A n \in DOMAIN Visible(w)' :
                n < t => n \in DOMAIN Visible(w) /\ Visible(w)'[n].hash = Visible(w)[n].hash
        BY <1>b, <2>0, <2>8, <3>1, <4>1
      <4>4. Hung(t, mine[t], Visible(w)', harmed)
        BY <3>2, <4>1, <4>2, <4>3, HungStays
      <4> QED BY <4>1, <4>2, <4>4
    <3> QED BY <3>3, <3>4
  <2>12. \A v \in Writers : v # w => Visible(v)' = Visible(v)
    BY <2>1, <2>2 DEF Visible
  <2>13. \A v \in Writers : Appending(v)' => Appending(v)
    BY <1>e, <2>0, <2>2 DEF Appending
  <2>14. \A v, u \in Writers : Appending(v)' /\ Appending(u)' => v = u
    BY <1>a, <2>13 DEF ChainInv
  <2>15. \A v \in Writers : appends'[v].drawn # 0 =>
            \A t \in DOMAIN decisions \cup harmed : t < appends'[v].drawn
    BY <1>a, <2>2 DEF ChainInv
  <2>16. ASSUME NEW v \in Writers, NEW t \in DOMAIN appends'[v].rows
         PROVE  /\ Hung(t, appends'[v].rows[t], Visible(v)', harmed)
                /\ appends'[v].rows[t].payload = "written"
                /\ \A u \in DOMAIN decisions \cup harmed : u < t
    <3>1. CASE v = w
      BY <2>2, <2>11, <3>1
    <3>2. CASE v # w
      BY <1>a, <2>2, <2>12, <3>2 DEF ChainInv
    <3> QED BY <3>1, <3>2
  <2>17. \A t \in DOMAIN decisions :
             Hung(t, decisions[t], decisions, harmed)
             /\ (decisions[t].payload = "written" <=> t \notin harmed)
    BY <1>a DEF ChainInv
  <2> QED BY <2>1, <2>14, <2>15, <2>16, <2>17 DEF ChainInv
<1>3. ASSUME NEW w \in Writers, DecisionsRollBack(w) PROVE ChainInv'
  <2>1. /\ appends'[w] = Closed /\ \A v \in Writers : v # w => appends'[v] = appends[v]
        /\ UNCHANGED <<decisions, harmed>>
    BY <1>3 DEF DecisionsRollBack, AuditTypeOK
  <2>2. \A v \in Writers : v # w => Visible(v)' = Visible(v) /\ (Appending(v)' <=> Appending(v))
    BY <2>1 DEF Visible, Appending
  <2>3. ~ Appending(w)' /\ appends'[w].drawn = 0 /\ DOMAIN appends'[w].rows = {}
    BY <1>e, <2>1 DEF Appending
  <2> QED BY <1>a, <2>1, <2>2, <2>3 DEF ChainInv
<1>4. ASSUME NEW w \in Writers, DecisionsCommit(w) PROVE ChainInv'
  <2> DEFINE mine == appends[w].rows
  <2>1. /\ appends'[w] = Closed /\ \A v \in Writers : v # w => appends'[v] = appends[v]
        /\ harmed' = harmed /\ decisions' = Visible(w) /\ Appending(w)
    BY <1>4 DEF DecisionsCommit, AuditTypeOK, Visible
  <2>2. \A v \in Writers : appends'[v] = Closed
    BY <1>a, <2>1 DEF ChainInv, Appending
  <2>3. /\ DOMAIN Visible(w) = DOMAIN decisions \cup DOMAIN mine
        /\ \A t \in DOMAIN mine : Visible(w)[t] = mine[t]
        /\ \A t \in DOMAIN decisions : t \notin DOMAIN mine => Visible(w)[t] = decisions[t]
    BY VisibleTypes
  <2>4. ASSUME NEW t \in DOMAIN mine
        PROVE  /\ Hung(t, Visible(w)[t], Visible(w), harmed)
               /\ Visible(w)[t].payload = "written" /\ t \notin harmed
    <3>1. \A u \in DOMAIN decisions \cup harmed : u < t
      BY <1>a DEF ChainInv
    <3> QED BY <1>a, <1>b, <2>3, <3>1 DEF ChainInv
  <2>5. ASSUME NEW t \in DOMAIN decisions, t \notin DOMAIN mine
        PROVE  /\ Hung(t, Visible(w)[t], Visible(w), harmed)
               /\ Visible(w)[t].payload = "written" <=> t \notin harmed
    <3>1. /\ Hung(t, decisions[t], decisions, harmed) /\ decisions[t].prev \in Hashes /\ t \in Nat
          /\ decisions[t].payload = "written" <=> t \notin harmed
      BY <1>a, <1>b, <1>c DEF ChainInv
    <3>2. \A n \in DOMAIN mine : n \in Nat /\ t < n
      BY <1>a, <1>b DEF ChainInv
    <3>3. \A n \in DOMAIN Visible(w) :
              n < t => n \in DOMAIN decisions /\ Visible(w)[n].hash = decisions[n].hash
      BY <1>b, <2>3, <3>1, <3>2
    <3>4. Hung(t, decisions[t], Visible(w), harmed)
      BY <2>3, <3>1, <3>3, HungStays
    <3> QED BY <2>3, <2>5, <3>1, <3>4
  <2>6. \A t \in DOMAIN Visible(w) :
            /\ Hung(t, Visible(w)[t], Visible(w), harmed)
            /\ Visible(w)[t].payload = "written" <=> t \notin harmed
    BY <2>3, <2>4, <2>5
  <2>7. \A v \in Writers : ~ Appending(v)' /\ appends'[v].drawn = 0 /\ DOMAIN appends'[v].rows = {}
    BY <1>e, <2>2 DEF Appending
  <2> QED BY <2>1, <2>6, <2>7 DEF ChainInv
<1>5. ASSUME NEW s \in DOMAIN decisions, RowAltered(s) \/ RowLost(s) PROVE ChainInv'
  <2>1. /\ UNCHANGED appends /\ harmed' = harmed \cup {s}
        /\ DOMAIN decisions' \subseteq DOMAIN decisions
        /\ DOMAIN decisions \subseteq DOMAIN decisions' \cup {s}
        /\ \A t \in DOMAIN decisions' : decisions'[t].hash = decisions[t].hash
        /\ \A t \in DOMAIN decisions' : decisions'[t].prev = decisions[t].prev
        /\ \A t \in DOMAIN decisions' : t # s => decisions'[t] = decisions[t]
        /\ s \in DOMAIN decisions' => decisions'[s].payload = "altered"
    <3>1. CASE RowAltered(s)
      <4>1. /\ DOMAIN decisions' = DOMAIN decisions
            /\ \A t \in DOMAIN decisions : t # s => decisions'[t] = decisions[t]
            /\ decisions'[s] = [decisions[s] EXCEPT !.payload = "altered"]
        BY <3>1 DEF RowAltered
      <4>2. decisions[s] \in DecisionRow
        BY DEF AuditTypeOK, RowTypeOK
      <4>3. /\ decisions'[s].hash = decisions[s].hash /\ decisions'[s].prev = decisions[s].prev
            /\ decisions'[s].payload = "altered"
        BY <4>1, <4>2 DEF DecisionRow
      <4> QED BY <3>1, <4>1, <4>3 DEF RowAltered
    <3>2. CASE RowLost(s)
      BY <3>2 DEF RowLost
    <3> QED BY <1>5, <3>1, <3>2
  <2>2. ASSUME NEW t \in DOMAIN decisions'
        PROVE  /\ Hung(t, decisions'[t], decisions', harmed')
               /\ decisions'[t].payload = "written" <=> t \notin harmed'
    <3>1. /\ Hung(t, decisions[t], decisions, harmed) /\ t \in Nat /\ decisions[t].prev \in Hashes
          /\ decisions[t].payload = "written" <=> t \notin harmed
      BY <1>a, <1>b, <1>c, <2>1 DEF ChainInv
    <3>2. Hung(t, decisions[t], decisions', harmed')
      BY <2>1, <3>1, HungStays
    <3>3. Hung(t, decisions'[t], decisions', harmed')
      BY <2>1, <3>2 DEF Hung
    <3> QED BY <2>1, <3>1, <3>3
  <2>3. ASSUME NEW v \in Writers, NEW t \in DOMAIN appends[v].rows
        PROVE  /\ Hung(t, appends[v].rows[t], Visible(v)', harmed')
               /\ \A u \in DOMAIN decisions' \cup harmed' : u < t
    <3> DEFINE mine == appends[v].rows
    <3>1. /\ DOMAIN Visible(v) = DOMAIN decisions \cup DOMAIN mine
          /\ \A u \in DOMAIN mine : Visible(v)[u] = mine[u]
          /\ \A u \in DOMAIN decisions : u \notin DOMAIN mine => Visible(v)[u] = decisions[u]
      BY VisibleTypes
    <3>2. /\ DOMAIN Visible(v)' = DOMAIN decisions' \cup DOMAIN mine
          /\ \A u \in DOMAIN mine : Visible(v)'[u] = mine[u]
          /\ \A u \in DOMAIN decisions' : u \notin DOMAIN mine => Visible(v)'[u] = decisions'[u]
      <4>1. Visible(v)' = With(decisions', mine)
        BY <2>1 DEF Visible
      <4> HIDE DEF mine
      <4>2. /\ DOMAIN With(decisions', mine) = DOMAIN decisions' \cup DOMAIN mine
            /\ \A u \in DOMAIN mine : With(decisions', mine)[u] = mine[u]
            /\ \A u \in DOMAIN decisions' :
                   u \notin DOMAIN mine => With(decisions', mine)[u] = decisions'[u]
        BY WithIs
      <4> QED BY <4>1, <4>2
    <3>3. /\ Hung(t, mine[t], Visible(v), harmed) /\ mine[t].prev \in Hashes /\ t \in Nat
          /\ \A u \in DOMAIN decisions \cup harmed : u < t
      BY <1>a, <1>b, <1>d DEF ChainInv
    <3>4. \A n \in DOMAIN Visible(v)' :
              n \in DOMAIN Visible(v) /\ Visible(v)'[n].hash = Visible(v)[n].hash
      BY <2>1, <3>1, <3>2
    <3>5. \A n \in DOMAIN Visible(v) \cup harmed : n \in DOMAIN Visible(v)' \cup harmed'
      BY <2>1, <3>1, <3>2
    <3>6. Hung(t, mine[t], Visible(v)', harmed')
      BY <3>3, <3>4, <3>5, HungStays
    <3> QED BY <2>1, <3>3, <3>6
  <2>4. \A v \in Writers : appends[v].drawn # 0 =>
            \A t \in DOMAIN decisions' \cup harmed' : t < appends[v].drawn
    BY <1>a, <2>1 DEF ChainInv
  <2>5. \A v \in Writers : Appending(v)' = Appending(v)
    BY <2>1 DEF Appending
  <2> QED BY <1>a, <2>1, <2>2, <2>3, <2>4, <2>5 DEF ChainInv
<1>6. ASSUME UNCHANGED auditVars PROVE ChainInv'
  <2>1. UNCHANGED <<decisions, appends, harmed>>
    BY <1>6 DEF auditVars
  <2>2. \A v \in Writers : Visible(v)' = Visible(v) /\ Appending(v)' = Appending(v)
    BY <2>1 DEF Visible, Appending
  <2> QED BY <1>a, <2>1, <2>2 DEF ChainInv
<1> QED BY <1>1, <1>2, <1>3, <1>4, <1>5, <1>6 DEF AuditNext

\* At the start there is nothing to hang.
LEMMA AuditInitInv == AuditInit => AuditTypeOK /\ NumbersInv /\ ChainInv
<1> SUFFICES ASSUME AuditInit PROVE AuditTypeOK /\ NumbersInv /\ ChainInv
  OBVIOUS
<1>1. /\ DOMAIN decisions = {} /\ harmed = {} /\ nextSeq = 1 /\ overlapped = FALSE
      /\ \A w \in Writers : appends[w] = Closed /\ appends[w].drawn = 0
                            /\ DOMAIN appends[w].rows = {} /\ ~ Appending(w)
  BY DEF AuditInit, NoRows, Closed, Appending
<1>2. appends = [w \in Writers |-> [drawn |-> appends[w].drawn, rows |-> appends[w].rows]]
  BY DEF AuditInit, Closed
<1>3. 1 \in 1 .. MaxSeq + 1
  BY AuditAssumption
<1>4. AuditTypeOK
  <2>1. \A w \in Writers : appends[w].drawn \in {0} \cup Seqs
    BY <1>1
  <2> QED BY <1>1, <1>2, <1>3, <2>1 DEF AuditTypeOK
<1>5. NumbersInv
  <2>1. \A w \in Writers : appends[w].drawn < nextSeq /\ appends[w].drawn = 0
    BY <1>1
  <2>2. \A t \in DOMAIN decisions \cup harmed : FALSE
    BY <1>1
  <2> QED BY <1>1, <2>1, <2>2 DEF NumbersInv
<1>6. ChainInv
  BY <1>1 DEF ChainInv
<1> QED BY <1>4, <1>5, <1>6

\* The three hold together.
LEMMA AuditInvariant ==
    AuditSpec => [](AuditTypeOK /\ NumbersInv /\ (~ overlapped => ChainInv))
<1>1. AuditInit => AuditTypeOK /\ NumbersInv /\ (~ overlapped => ChainInv)
  BY AuditInitInv
<1>2. AuditTypeOK /\ NumbersInv /\ (~ overlapped => ChainInv) /\ [AuditNext]_auditVars
          => (AuditTypeOK /\ NumbersInv /\ (~ overlapped => ChainInv))'
  BY AuditNextTypes, AuditNextChain
<1> QED BY <1>1, <1>2, PTL DEF AuditSpec

\* A chain that hangs together gives the verifier the right answer.
LEMMA ChainTells == AuditTypeOK /\ ChainInv => VerdictIsRight
<1> SUFFICES ASSUME AuditTypeOK, ChainInv PROVE VerdictIsRight
  OBVIOUS
<1>0. /\ DOMAIN decisions \subseteq Seqs /\ Seqs \subseteq Nat
      /\ \A t \in DOMAIN decisions :
             /\ decisions[t].prev \in Hashes /\ decisions[t].hash \in Hashes
             /\ decisions[t].payload \in Payloads
             /\ Hung(t, decisions[t], decisions, harmed)
             /\ decisions[t].payload = "written" <=> t \notin harmed
  BY DEF AuditTypeOK, RowTypeOK, DecisionRow, ChainInv, Seqs
<1>1. \A t \in DOMAIN decisions :
          /\ HashedOver(t) = Over(decisions[t].hash)
          /\ decisions[t].hash = Append(decisions[t].prev, <<t, "written">>)
          /\ Over(decisions[t].hash) = Over(decisions[t].prev) \cup {t}
  <2> TAKE t \in DOMAIN decisions
  <2>1. HashedOver(t) = Over(decisions[t].hash)
    BY DEF HashedOver, Over
  <2>2. decisions[t].hash = Append(decisions[t].prev, <<t, "written">>)
    BY <1>0 DEF Hung
  <2>3. Over(Append(decisions[t].prev, <<t, "written">>)) = Over(decisions[t].prev) \cup {t}
    BY <1>0, HashedIs
  <2> QED BY <2>1, <2>2, <2>3
<1>2. ASSUME NEW t \in DOMAIN decisions, t \in harmed PROVE ~ Verified(t)
  <2>1. decisions[t].payload # "written"
    BY <1>0, <1>2
  <2>2. Verified(t) => Append(decisions[t].prev, <<t, "written">>)
                           = Append(decisions[t].prev, <<t, decisions[t].payload>>)
    BY <1>1 DEF Verified, ExpectedHash
  <2>3. decisions[t].prev \in Hashes /\ t \in Seqs
    BY <1>0
  <2> QED BY <2>1, <2>2, <2>3, HashTells
<1> DEFINE earlier(t) == {u \in DOMAIN decisions : u < t}
<1>3. ASSUME NEW t \in DOMAIN decisions
      PROVE  /\ earlier(t) = {} => HashBefore(t) = <<>>
             /\ earlier(t) # {} => /\ Newest(earlier(t)) \in earlier(t)
                                   /\ \A u \in earlier(t) : u <= Newest(earlier(t))
                                   /\ HashBefore(t) = decisions[Newest(earlier(t))].hash
  <2>1. earlier(t) \subseteq Seqs
    BY <1>0
  <2> QED BY <2>1, NewestIs DEF HashBefore
<1>4. ASSUME ChainOk, ~ NoTrace PROVE FALSE
  <2>1. PICK s \in harmed : \E t \in DOMAIN decisions : s \in HashedOver(t)
    BY <1>4 DEF NoTrace
  <2> DEFINE T == {t \in DOMAIN decisions : s \in Over(decisions[t].hash)}
  <2>2. T \subseteq Nat /\ T # {}
    BY <1>0, <1>1, <2>1
  <2>3. PICK t \in T : \A u \in T : t <= u
    BY <2>2, LeastNumber
  <2>4. t \in DOMAIN decisions /\ Verified(t) /\ s \in Over(decisions[t].hash)
    BY <1>4, <2>3 DEF ChainOk
  <2>5. s # t
    BY <1>2, <2>1, <2>4
  <2>6. s \in Over(decisions[t].prev) /\ decisions[t].prev = HashBefore(t)
    BY <1>1, <2>4, <2>5 DEF Verified
  <2>7. earlier(t) # {}
    BY <1>0, <1>3, <2>4, <2>6, OverIs
  <2>8. PICK u \in earlier(t) : HashBefore(t) = decisions[u].hash
    BY <1>3, <2>4, <2>7
  <2>9. u \in T /\ u < t
    BY <2>6, <2>8
  <2>10. t \in Nat /\ u \in Nat /\ t <= u
    BY <1>0, <2>3, <2>4, <2>9
  <2> HIDE DEF T
  <2> QED BY <2>9, <2>10
<1>5. ASSUME NoTrace PROVE ChainOk
  <2> SUFFICES ASSUME NEW t \in DOMAIN decisions PROVE Verified(t)
    BY DEF ChainOk
  <2>1. \A n \in Over(decisions[t].prev) : n \notin harmed
    BY <1>1, <1>5 DEF NoTrace
  <2>2. t \notin harmed
    BY <1>1, <1>5 DEF NoTrace
  <2>3. decisions[t].hash = ExpectedHash(t, decisions[t].prev, decisions[t].payload)
    BY <1>0, <1>1, <2>2 DEF ExpectedHash
  <2>4. CASE decisions[t].prev = <<>>
    <3>1. earlier(t) = {}
      BY <1>0, <2>4 DEF Hung
    <3> QED BY <1>3, <2>3, <2>4, <3>1 DEF Verified
  <2>5. CASE decisions[t].prev # <<>>
    <3> DEFINE p == decisions[t].prev[Len(decisions[t].prev)][1]
    <3>1. p \in Over(decisions[t].prev)
      BY <1>0, <2>5, OverIs
    <3>2. p < t /\ p \in DOMAIN decisions
      BY <1>0, <2>1, <3>1 DEF Hung
    <3>3. /\ \A u \in DOMAIN decisions : u < t => u <= p
          /\ decisions[p].hash = decisions[t].prev
      BY <1>0, <2>5, <3>2 DEF Hung
    <3> HIDE DEF p
    <3>4. Newest(earlier(t)) = p
      <4>1. p \in earlier(t)
        BY <3>2
      <4>2. Newest(earlier(t)) \in earlier(t) /\ p <= Newest(earlier(t))
        BY <1>3, <4>1
      <4> DEFINE n == Newest(earlier(t))
      <4>3. n \in DOMAIN decisions /\ n < t /\ p <= n
        BY <4>2
      <4> HIDE DEF n
      <4>4. n <= p /\ n \in Nat /\ p \in Nat
        BY <1>0, <3>2, <3>3, <4>3
      <4>5. n = p
        BY <4>3, <4>4
      <4> QED BY <4>5 DEF n
    <3>5. earlier(t) # {}
      BY <3>2
    <3> QED BY <1>3, <2>3, <3>3, <3>4, <3>5 DEF Verified
  <2> QED BY <2>4, <2>5
<1>6. ASSUME NEW s \in harmed \cap DOMAIN decisions PROVE VerifiedThrough < s
  <2> DEFINE good == {u \in DOMAIN decisions : \A t \in DOMAIN decisions : t <= u => Verified(t)}
  <2>1. ~ Verified(s) /\ s \in Seqs
    BY <1>0, <1>2
  <2>2. \A u \in good : u \in Nat /\ ~ (s <= u)
    BY <1>0, <2>1
  <2>3. good # {} => Newest(good) \in good
    <3>1. good \subseteq Seqs
      BY <1>0
    <3> QED BY <3>1, NewestIs
  <2>4. VerifiedThrough = IF good = {} THEN 0 ELSE Newest(good)
    BY DEF VerifiedThrough
  <2> HIDE DEF good
  <2> QED BY <2>1, <2>2, <2>3, <2>4 DEF Seqs
<1> QED BY <1>4, <1>5, <1>6 DEF VerdictIsRight

\* The log keeps its types (AuditTypeOK), for any transactions and any harm.
THEOREM AuditTypes == AuditSpec => []AuditTypeOK
BY AuditInvariant, PTL

\* As long as no two transactions append at once, the verifier's answer is the
\* truth about the log (ChainVerdict, verified_through_seq): broken exactly if
\* harm left a trace, and never vouching for a row that was touched.
THEOREM AuditVerdict == AuditSpec => []VerdictIsRight
<1>1. AuditTypeOK /\ (~ overlapped => ChainInv) => VerdictIsRight
  BY ChainTells DEF VerdictIsRight
<1> QED BY <1>1, AuditInvariant, PTL

-----------------------------------------------------------------------------
(* The three together. *)

\* What each of the three keeps.
DecisionsInv ==
    /\ ProposalTypeOK /\ LifeInv /\ UndoneInv
    /\ RuntimeTypeOK /\ JobsInv
    /\ AuditTypeOK /\ NumbersInv /\ (~ overlapped => ChainInv)

\* Each of the three keeps its own, and does not touch the others'.
LEMMA DecisionsNextTypes ==
    ASSUME DecisionsInv, [DecisionsNext]_DecisionsVars
    PROVE  DecisionsInv'
<1> DEFINE proposalInv == ProposalTypeOK /\ LifeInv /\ UndoneInv
           runtimeInv == RuntimeTypeOK /\ JobsInv
           auditInv == AuditTypeOK /\ NumbersInv /\ (~ overlapped => ChainInv)
<1>1. [ProposalNext]_proposalVars /\ [RuntimeNext]_runtimeVars /\ [AuditNext]_auditVars
  BY DEF DecisionsNext, DecisionsVars
<1>2. proposalInv'
  BY <1>1, ProposalNextInv DEF DecisionsInv
<1>3. runtimeInv'
  BY <1>1, RuntimeNextInv DEF DecisionsInv
<1>4. auditInv'
  BY <1>1, AuditNextTypes, AuditNextChain DEF DecisionsInv
<1> QED BY <1>2, <1>3, <1>4 DEF DecisionsInv

\* Every variable of the three keeps its type where the three are together
\* (TypesOK), for any size of each.
THEOREM DecisionsTypes == DecisionsSpec => []TypesOK
<1>1. DecisionsInit => DecisionsInv
  BY ProposalInitInv, RuntimeInitInv, AuditInitInv DEF DecisionsInit, DecisionsInv
<1>2. DecisionsInv /\ [DecisionsNext]_DecisionsVars => DecisionsInv'
  BY DecisionsNextTypes
<1>3. DecisionsInv => TypesOK
  BY DEF DecisionsInv, TypesOK
<1> QED BY <1>1, <1>2, <1>3, PTL DEF DecisionsSpec
=============================================================================
