--------------------------- MODULE EmergencyBrake ---------------------------
(***************************************************************************)
(* The emergency brake: who presses and lifts it, and who reads it before  *)
(* a change is made.                                                       *)
(*                                                                         *)
(* A brake belongs to a scope: everything, a business, or an advertising   *)
(* account.  One account may be connected several times, each connection   *)
(* with a row of its own, so a scope stands for the rows of `PlacesOf`.  A *)
(* request of the panel reads the row of its scope, decides, and writes in *)
(* the same transaction; only requests for an account take the lock that   *)
(* the gates take too.  What a transaction has written is seen by nobody   *)
(* else before it commits.  A confirmed tap in Telegram is a request for   *)
(* the global scope.                                                       *)
(***************************************************************************)
EXTENDS Naturals, FiniteSets

CONSTANTS
    Accounts,     \* the connections of one advertising account
    Pressed,      \* the places the panel is asked about
    Callers,      \* requests under way
    MaxTime       \* bound of the clock

ASSUME EmergencyBrakeAssumption ==
    /\ "global" \notin Accounts /\ "business" \notin Accounts
    /\ Pressed \subseteq {"global", "business"} \cup Accounts
    /\ MaxTime \in Nat

Scopes == {"global", "business", "account"}
Places == {"global", "business"} \cup Accounts
Modes == {"AUTONOMOUS", "ALL"}
Kinds == {"human", "rule"}       \* a package's step counts as a rule
Times == 0 .. MaxTime

VARIABLES
    now,          \* the clock of the process
    brakes,       \* the last row of each place
    callers,      \* what each request has done so far
    reader,       \* the reading of the brake in force by one worker
    promise,      \* history: what was last answered to be engaged, by scope
    firm          \* history: what one scope has blocked since the reading began

brakeVars == <<now, brakes, callers, reader, promise, firm>>

ScopeOf(p) == IF p \in Accounts THEN "account" ELSE p
PlacesOf(s) == IF s = "account" THEN Accounts ELSE {s}

NeverEngaged == [mode |-> "none", since |-> 0]
Released == [mode |-> "released", since |-> 0]
Unanswered == [mode |-> "none", at |-> 0]
Waiting ==
    [step |-> "idle", do |-> "engage", place |-> "global", mode |-> "ALL",
     at |-> 0, rows |-> {}]
NotReading == [step |-> "done", locked |-> FALSE, found |-> "none"]

-----------------------------------------------------------------------------
\* The brake as one statement sees it: of the rows of the scope, the one in
\* force first, and of those the one that stops everything.
Engaged(view) == view \in Modes

Get(s) ==
    LET views == {brakes[p].mode : p \in PlacesOf(s)}
    IN  IF "ALL" \in views THEN "ALL"
        ELSE IF "AUTONOMOUS" \in views THEN "AUTONOMOUS"
        ELSE IF "released" \in views THEN "released" ELSE "none"

InForce(s) == {p \in PlacesOf(s) : Engaged(brakes[p].mode)}

Blocks(view, kind) == view = "ALL" \/ (view = "AUTONOMOUS" /\ kind = "rule")

\* Of the scopes that reach an account, read widest first: the first that
\* stops everything, or else the first that is on.
\* Mutant: the first that is on, whatever it stops.
FirstBrake(found, view) == IF ~Engaged(found) /\ Engaged(view) THEN view ELSE found

MostRestrictiveBrake(found, view) ==
    IF view = "ALL" \/ (Engaged(view) /\ ~Engaged(found)) THEN view ELSE found

Blocking == {b \in Scopes \X Kinds : Blocks(Get(b[1]), b[2])}

-----------------------------------------------------------------------------
BrakeInit ==
    /\ now = 0
    /\ brakes = [p \in Places |-> NeverEngaged]
    /\ callers = [c \in Callers |-> Waiting]
    /\ reader = NotReading
    /\ promise = [s \in Scopes |-> Unanswered]
    /\ firm = {}

\* The advisory lock of the physical account, held to the end of the
\* transaction by whoever engages or releases one of its brakes, and by the
\* gates of an execution.
AccountLocked ==
    \/ reader.locked
    \/ \E c \in Callers : callers[c].place \in Accounts /\ callers[c].step \in {"checked", "wrote"}

MayLock(p) == p \in Accounts => ~AccountLocked

\* The rows another transaction has written and not committed.
Written(c) ==
    UNION {callers[d].rows : d \in {e \in Callers \ {c} : callers[e].step = "wrote"}}

ClockTicks ==
    /\ now < MaxTime /\ now' = now + 1
    /\ UNCHANGED <<brakes, callers, reader, promise, firm>>

-----------------------------------------------------------------------------
RequestEnds(c) ==
    /\ callers' = [callers EXCEPT ![c] = Waiting]
    /\ UNCHANGED <<now, brakes, reader, promise, firm>>

\* POST /kill-switch: the clock, then the row.  Engaging what is engaged is
\* refused; releasing what never was, too.  A release has no mode.
PanelAsks(c, do, p, m) ==
    LET view == Get(ScopeOf(p))
        refused == IF do = "engage" THEN Engaged(view) ELSE view = "none"
    IN  /\ callers[c].step = "idle" /\ (do = "release" => m = "ALL")
        /\ ~refused
        /\ callers' = [callers EXCEPT ![c] =
               [step |-> "read", do |-> do, place |-> p, mode |-> m, at |-> now, rows |-> {}]]
        /\ UNCHANGED <<now, brakes, reader, promise, firm>>

\* Mutant: the row is saved as decided on the first reading.
RechecksNothing(c) ==
    /\ callers[c].step = "read" /\ callers[c].do = "engage"
    /\ MayLock(callers[c].place)
    /\ callers' = [callers EXCEPT ![c].step = "checked"]
    /\ UNCHANGED <<now, brakes, reader, promise, firm>>

\* save: the lock, if the scope has one, then the row again.
Rechecks(c) ==
    /\ callers[c].step = "read" /\ callers[c].do = "engage"
    /\ MayLock(callers[c].place)
    /\ IF Engaged(Get(ScopeOf(callers[c].place))) THEN RequestEnds(c)
       ELSE /\ callers' = [callers EXCEPT ![c].step = "checked"]
            /\ UNCHANGED <<now, brakes, reader, promise, firm>>

Wrote(c, rows) ==
    /\ callers' = [callers EXCEPT ![c].step = "wrote", ![c].rows = rows]
    /\ UNCHANGED <<now, brakes, reader, promise, firm>>

\* The insert waits for whoever has written the same key.
EngageWrites(c) ==
    /\ callers[c].step = "checked"
    /\ callers[c].place \notin Written(c)
    /\ Wrote(c, {callers[c].place})

\* The rows in force that a release lifts, when none is younger than the
\* request: the table does not let a brake end before it began.
MayLift(c, rows) == \A p \in rows : brakes[p].since <= callers[c].at

ReleaseWrites(c) ==
    LET rows == InForce(ScopeOf(callers[c].place))
    IN  /\ callers[c].step = "read" /\ callers[c].do = "release"
        /\ MayLock(callers[c].place)
        /\ rows \cap Written(c) = {}
        /\ MayLift(c, rows)
        /\ Wrote(c, rows)

\* A row already in force keeps the stronger mode of the two.
RowEngaged(c, old) ==
    [mode |-> IF old.mode = "ALL" THEN "ALL" ELSE callers[c].mode, since |-> callers[c].at]

Commits(c) ==
    LET q == callers[c]
    IN  /\ q.step = "wrote"
        /\ brakes' = [p \in Places |->
               IF p \notin q.rows THEN brakes[p]
               ELSE IF q.do = "engage" THEN RowEngaged(c, brakes[p]) ELSE Released]
        /\ promise' = [promise EXCEPT ![ScopeOf(q.place)] =
               IF q.do = "engage" THEN [mode |-> q.mode, at |-> q.at]
               ELSE IF q.at >= @.at THEN Unanswered ELSE @]
        /\ callers' = [callers EXCEPT ![c] = Waiting]
        /\ firm' = firm \cap Blocking'
        /\ UNCHANGED <<now, reader>>

\* A refused release, an error of the database or the end of the process:
\* the transaction leaves nothing behind.
Aborts(c) == callers[c].step # "idle" /\ RequestEnds(c)

-----------------------------------------------------------------------------
\* The brake in force for an account, before a change is made: three scopes,
\* one statement each.  The gates read it holding the account's lock, the
\* last look before the request leaves does not.
ReadingStarts(locked) ==
    /\ reader.step = "done" /\ (locked => ~AccountLocked)
    /\ reader' = [step |-> "global", locked |-> locked, found |-> "none"]
    /\ firm' = Blocking
    /\ UNCHANGED <<now, brakes, callers, promise>>

After(s) == CASE s = "global" -> "business" [] s = "business" -> "account" [] OTHER -> "decide"

ReadsScope ==
    /\ reader.step \in Scopes
    /\ reader' = [reader EXCEPT !.found = MostRestrictiveBrake(@, Get(reader.step)), !.step = After(@)]
    /\ UNCHANGED <<now, brakes, callers, promise, firm>>

ReadingEnds ==
    /\ reader.step = "decide"
    /\ reader' = NotReading
    /\ firm' = {}
    /\ UNCHANGED <<now, brakes, callers, promise>>

-----------------------------------------------------------------------------
BrakeNext ==
    \/ ClockTicks
    \/ \E c \in Callers :
           \/ \E do \in {"engage", "release"}, p \in Pressed, m \in Modes : PanelAsks(c, do, p, m)
           \/ Rechecks(c) \/ EngageWrites(c) \/ ReleaseWrites(c)
           \/ Commits(c) \/ Aborts(c)
    \/ \E locked \in BOOLEAN : ReadingStarts(locked)
    \/ ReadsScope \/ ReadingEnds

BrakeSpec == BrakeInit /\ [][BrakeNext]_brakeVars

-----------------------------------------------------------------------------
\* Every variable keeps its type.
BrakeTypeOK ==
    /\ now \in Times
    /\ brakes \in [Places -> [mode : Modes \cup {"released", "none"}, since : Times]]
    /\ callers \in [Callers -> [step : {"idle", "read", "checked", "wrote"},
                               do : {"engage", "release"}, place : Places, mode : Modes,
                               at : Times, rows : SUBSET Places]]
    /\ reader \in [step : Scopes \cup {"decide", "done"}, locked : BOOLEAN,
                   found : Modes \cup {"none"}]
    /\ promise \in [Scopes -> [mode : Modes \cup {"none"}, at : Times]]
    /\ firm \subseteq Scopes \X Kinds

\* A brake that was answered to be on stays on, stopping at least what was
\* answered, until a release that was asked for no earlier than it commits;
\* an account has then one row in force over all its connections, with the
\* very mode that was answered.  save's lock and second look, the index, the
\* stronger mode of the upsert and the table's condition on dates.
BrakeHolds ==
    \A s \in Scopes :
        promise[s].mode # "none" =>
            /\ \A k \in Kinds : Blocks(promise[s].mode, k) => Blocks(Get(s), k)
            /\ s = "account" =>
                   /\ Cardinality(InForce("account")) = 1
                   /\ Get(s) = promise[s].mode

\* What one scope has stopped during a whole reading, the reading finds
\* stopped, on whatever connection of the account the brake was pressed.
BrakeIsSeen ==
    reader.step = "decide" =>
        \A b \in firm : Blocks(reader.found, b[2])

-----------------------------------------------------------------------------
\* A statement the code does not keep.

\* "A successful response/audit must never claim a weaker mode than the
\* persisted brake" (sql_brake_state.py): scopes without a lock do.  Two
\* requests find no brake; the second waits for the first in the index and
\* keeps its stronger mode, but answers its own.
AnswerIsExact ==
    \A s \in Scopes : promise[s].mode # "none" => Get(s) = promise[s].mode
=============================================================================
