----------------------------- MODULE AuditChain -----------------------------
(***************************************************************************)
(* The decision log: transactions of every process append to it, a trigger *)
(* chains each row to the newest row it sees, and a verifier walks the     *)
(* rows in the order of their numbers.                                     *)
(*                                                                         *)
(* The number of a row is drawn before the trigger runs, a transaction     *)
(* sees its own rows and those committed, and nothing makes two of them    *)
(* wait for each other.  A hash stands for all that went into it: the      *)
(* number and payload of its row and of every row before it in its chain.  *)
(***************************************************************************)
EXTENDS Naturals, Sequences, FiniteSets

CONSTANTS
    Writers,      \* transactions that record a decision
    MaxSeq,       \* bound of the numbers drawn
    MaxHarm       \* bound of the rows altered or lost

ASSUME AuditAssumption == MaxSeq \in Nat \ {0} /\ MaxHarm \in Nat

VARIABLES
    decisions,    \* the committed rows of decision_log, by number
    appends,      \* of each open transaction: the number drawn and its rows
    nextSeq,      \* the sequence behind the column
    overlapped,   \* history: two transactions have appended at once
    harmed        \* history: rows altered or lost from outside

auditVars == <<decisions, appends, nextSeq, overlapped, harmed>>

Seqs == 1 .. MaxSeq
Payloads == {"written", "altered"}
NoRows == [s \in {} |-> <<>>]
Closed == [drawn |-> 0, rows |-> NoRows]
Appending(w) == appends[w] # Closed
Newest(seqs) == CHOOSE s \in seqs : \A t \in seqs : t <= s
Oldest(seqs) == CHOOSE s \in seqs : \A t \in seqs : s <= t
With(f, g) == [s \in DOMAIN f \cup DOMAIN g |-> IF s \in DOMAIN g THEN g[s] ELSE f[s]]

ExpectedHash(s, prev, payload) == Append(prev, <<s, payload>>)

AuditInit ==
    /\ decisions = NoRows /\ nextSeq = 1
    /\ appends = [w \in Writers |-> Closed]
    /\ overlapped = FALSE /\ harmed = {}

-----------------------------------------------------------------------------
\* The INSERT draws its number, and that is not undone.
DrawsSeq(w) ==
    /\ appends[w].drawn = 0 /\ nextSeq <= MaxSeq
    /\ appends' = [appends EXCEPT ![w].drawn = nextSeq]
    /\ nextSeq' = nextSeq + 1
    /\ overlapped' = (overlapped \/ \E v \in Writers \ {w} : Appending(v))
    /\ UNCHANGED <<decisions, harmed>>

\* Mutant: the trigger takes the first row it finds in the index.
OldestHash(rows) == IF DOMAIN rows = {} THEN <<>> ELSE rows[Oldest(DOMAIN rows)].hash

\* The last row by number, or nothing.
PreviousHash(rows) == IF DOMAIN rows = {} THEN <<>> ELSE rows[Newest(DOMAIN rows)].hash

\* The trigger: the new row hangs on the newest its transaction sees.
Chains(w) ==
    LET s == appends[w].drawn
        prev == PreviousHash(With(decisions, appends[w].rows))
        row == [prev |-> prev, payload |-> "written", hash |-> ExpectedHash(s, prev, "written")]
    IN  /\ s # 0
        /\ appends' = [appends EXCEPT ![w] =
               [drawn |-> 0, rows |-> With(@.rows, [t \in {s} |-> row])]]
        /\ UNCHANGED <<decisions, nextSeq, overlapped, harmed>>

DecisionsCommit(w) ==
    /\ appends[w].drawn = 0 /\ Appending(w)
    /\ decisions' = With(decisions, appends[w].rows)
    /\ appends' = [appends EXCEPT ![w] = Closed]
    /\ UNCHANGED <<nextSeq, overlapped, harmed>>

DecisionsRollBack(w) ==
    /\ Appending(w)
    /\ appends' = [appends EXCEPT ![w] = Closed]
    /\ UNCHANGED <<decisions, nextSeq, overlapped, harmed>>

\* From outside, as the triggers let no statement of the program do it.
RowAltered(s) ==
    /\ s \in DOMAIN decisions /\ Cardinality(harmed) < MaxHarm
    /\ decisions' = [decisions EXCEPT ![s].payload = "altered"]
    /\ harmed' = harmed \cup {s}
    /\ UNCHANGED <<appends, nextSeq, overlapped>>

RowLost(s) ==
    /\ s \in DOMAIN decisions /\ Cardinality(harmed) < MaxHarm
    /\ decisions' = [t \in DOMAIN decisions \ {s} |-> decisions[t]]
    /\ harmed' = harmed \cup {s}
    /\ UNCHANGED <<appends, nextSeq, overlapped>>

AuditNext ==
    \/ \E w \in Writers :
           DrawsSeq(w) \/ Chains(w) \/ DecisionsCommit(w) \/ DecisionsRollBack(w)
    \/ \E s \in DOMAIN decisions : RowAltered(s) \/ RowLost(s)

AuditSpec == AuditInit /\ [][AuditNext]_auditVars

-----------------------------------------------------------------------------
\* The verifier: each row hangs on the one before it by number, and its hash
\* is that of its number and its payload.
HashBefore(s) ==
    LET earlier == {t \in DOMAIN decisions : t < s}
    IN  IF earlier = {} THEN <<>> ELSE decisions[Newest(earlier)].hash

Verified(s) ==
    /\ decisions[s].prev = HashBefore(s)
    /\ decisions[s].hash = ExpectedHash(s, decisions[s].prev, decisions[s].payload)

ChainOk == \A s \in DOMAIN decisions : Verified(s)

\* What verify answers for verified_through_seq: the last before the first
\* that does not hold.
VerifiedThrough ==
    LET good == {s \in DOMAIN decisions : \A t \in DOMAIN decisions : t <= s => Verified(t)}
    IN  IF good = {} THEN 0 ELSE Newest(good)

-----------------------------------------------------------------------------
Hashes == Seq(Seqs \X {"written"})
DecisionRow == [prev : Hashes, payload : Payloads, hash : Hashes]

RowTypeOK(s, row) == row \in DecisionRow /\ row.hash[Len(row.hash)][1] = s

\* Every variable keeps its type, and a hash ends with its own row.
AuditTypeOK ==
    /\ DOMAIN decisions \subseteq Seqs
    /\ \A s \in DOMAIN decisions : RowTypeOK(s, decisions[s])
    /\ appends = [w \in Writers |-> [drawn |-> appends[w].drawn, rows |-> appends[w].rows]]
    /\ \A w \in Writers :
           /\ appends[w].drawn \in {0} \cup Seqs /\ DOMAIN appends[w].rows \subseteq Seqs
           /\ \A s \in DOMAIN appends[w].rows : RowTypeOK(s, appends[w].rows[s])
    /\ nextSeq \in 1 .. MaxSeq + 1
    /\ overlapped \in BOOLEAN /\ harmed \subseteq Seqs

\* The rows that one was hashed over.
HashedOver(s) == {pair[1] : pair \in {decisions[s].hash[i] : i \in DOMAIN decisions[s].hash}}

\* No harm shows: what was altered is gone, and nothing left hung on it.
NoTrace ==
    \A s \in harmed : \A t \in DOMAIN decisions : s \notin HashedOver(t)

\* As long as no two transactions have appended at once, the verdict is right
\* over rollbacks, unused numbers and any harm: the chain is broken exactly
\* when a row was altered, or lost with a row after it that hung on it; and
\* what verify vouches for are rows nobody touched.
VerdictIsRight ==
    ~overlapped =>
        /\ ChainOk <=> NoTrace
        /\ \A s \in harmed \cap DOMAIN decisions : VerifiedThrough < s

-----------------------------------------------------------------------------
\* A statement the code does not keep.

\* Rows nobody touched verify: the log is one chain for the whole program, and
\* each entry hangs on the one before it (test_audit_chain_verifier.py).  Two
\* transactions that append at once hang on the same row, or the lower number
\* on the higher one, and the log is reported broken from then on.
UntouchedVerifies == harmed = {} => ChainOk
=============================================================================
