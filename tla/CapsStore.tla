------------------------------ MODULE CapsStore ------------------------------
(***************************************************************************)
(* The caps the owner sets from the panel, kept by ads-broker              *)
(* (broker/infrastructure/hard_caps_service.py, caps_state.py,             *)
(* effective_caps.py): requests against the envelope, the durable write    *)
(* (temporary file, fsync, replace, fsync of the directory), the copy in   *)
(* memory that every authorization resolves against, and the operator's    *)
(* file, read once when the broker starts.                                 *)
(*                                                                         *)
(* A mutation runs under one lock without yielding, so requests do not     *)
(* interleave; what interleaves are process crashes, power losses, errors  *)
(* of the file system, a document damaged or edited by hand, and restarts  *)
(* with another operator's file.                                           *)
(***************************************************************************)
EXTENDS CapsPolicy, FiniteSets

CONSTANTS
    Missing, Damaged,       \* no document, a document that cannot be read as a whole
    CapAccounts,            \* canonical account ids
    Requestable,            \* amounts a panel request may carry
    HandEdited,             \* amounts someone may write into the document
    CapsFiles,              \* versions of caps.yaml: [accounts, envelope, max_accounts]
    MaxChangesPerDay,       \* max_cap_changes_per_day of the envelope
    RetainedDays,           \* _RETAINED_CHANGE_DAYS
    MaxCapsDay              \* bound: last day of the instance

CapsDays == 0..MaxCapsDay

VARIABLES
    capsFile,     \* CapsConfig as loaded when the broker started
    document,     \* panel-caps.json as the file system shows it: a document, Missing or Damaged
    durable,      \* the same as a power loss leaves it
    snapshot,     \* PanelCapsSnapshot in memory
    mutation,     \* the write in progress: [doc, step], or None
    capsDay,      \* UTC date of the clock
    accepted,     \* history: changes confirmed to their requester, per day
    unsettled     \* history: the file changed since the last confirmation

capsVars == <<capsFile, document, durable, snapshot, mutation, capsDay,
              accepted, unsettled>>

Documents ==
    [accounts : [CapAccounts -> (Requestable \cup HandEdited \cup {None})],
     changes  : [CapsDays -> 0..MaxChangesPerDay]]

\* The loaders hand over whole numbers of minor units, or nothing (caps_config.py).
ASSUME CapsStoreAssumption ==
    /\ MaxChangesPerDay \in Nat /\ RetainedDays \in Nat \ {0} /\ MaxCapsDay \in Nat
    /\ Requestable \subseteq Amounts /\ HandEdited \subseteq Amounts
    /\ CapsFiles \subseteq [accounts : [CapAccounts -> [Fields -> Int] \cup {None}],
                           envelope : [Fields -> Int] \cup {None}, max_accounts : Nat]
    /\ None \notin [Fields -> Int] \cup [doc : Documents, step : {"temporary", "replaced"}]
    /\ {Missing, Damaged} \cap Documents = {} /\ Missing # Damaged

EmptyDocument == [accounts |-> [a \in CapAccounts |-> None], changes |-> [d \in CapsDays |-> 0]]
Unavailable   == [available |-> FALSE, doc |-> EmptyDocument]

\* Never raises: a document that cannot be read as a whole is ignored as a
\* whole, and none at all is the empty state.
LoadSnapshot(file) ==
    IF file = Damaged THEN Unavailable
    ELSE [available |-> TRUE, doc |-> IF file = Missing THEN EmptyDocument ELSE file]

\* Without an envelope the broker has no store, so there is nothing to load.
Loaded(file, config) ==
    IF config.envelope = None THEN LoadSnapshot(Missing) ELSE LoadSnapshot(file)

PanelAmountsOf(a) == IF snapshot.available THEN snapshot.doc.accounts[a] ELSE None

\* What the write pipeline gets for an account, read anew for every resolution.
EffectiveCaps(a) ==
    ResolveEffectiveCaps(capsFile.accounts[a], PanelAmountsOf(a), capsFile.envelope)

-----------------------------------------------------------------------------
CapsInit ==
    /\ capsFile \in CapsFiles
    /\ document = Missing /\ durable = Missing
    /\ snapshot = Loaded(Missing, capsFile)
    /\ mutation = None
    /\ capsDay = 0
    /\ accepted = [d \in CapsDays |-> 0]
    /\ unsettled = FALSE

PruneChangeDays(changes, today) ==
    [d \in CapsDays |->
        IF today - d >= 0 /\ today - d < RetainedDays THEN changes[d] ELSE 0]

\* Mutant: the counter starts at one with every document.
SpendChangeForgetful(changes, today) ==
    [PruneChangeDays(changes, today) EXCEPT ![today] = 1]
SpendOneChange(changes, today) ==
    [PruneChangeDays(changes, today) EXCEPT ![today] = changes[today] + 1]

\* CapsStateStore.mutate up to the write: only from a readable state, and
\* the day's change is spent in the same document.
StartMutation(accounts) ==
    /\ mutation = None
    /\ snapshot.available
    /\ snapshot.doc.changes[capsDay] < MaxChangesPerDay
    /\ LET doc == [accounts |-> accounts,
                   changes  |-> SpendOneChange(snapshot.doc.changes, capsDay)]
       IN  mutation' = [doc |-> doc, step |-> "temporary"]
    /\ UNCHANGED <<capsFile, document, durable, snapshot, capsDay,
                   accepted, unsettled>>

CapsHeld == {a \in CapAccounts : snapshot.doc.accounts[a] # None}

SetAccountCaps(a, amounts) ==
    /\ capsFile.envelope # None
    /\ Coherent(amounts, capsFile.envelope)
    /\ WithinEnvelope(amounts, capsFile.envelope)
    /\ a \in CapsHeld \/ Cardinality(CapsHeld) < capsFile.max_accounts
    /\ StartMutation([snapshot.doc.accounts EXCEPT ![a] = amounts])

DeleteAccountCaps(a) ==
    /\ capsFile.envelope # None
    /\ a \in CapsHeld
    /\ StartMutation([snapshot.doc.accounts EXCEPT ![a] = None])

\* os.replace: everyone who opens the file now sees the new document, which
\* the disk is not yet sure to keep.
ReplaceDocument ==
    /\ mutation # None /\ mutation.step = "temporary"
    /\ mutation' = [mutation EXCEPT !.step = "replaced"]
    /\ document' = mutation.doc
    /\ unsettled' = TRUE
    /\ UNCHANGED <<capsFile, durable, snapshot, capsDay, accepted>>

\* Mutant: the directory is not flushed.
FsyncNothing(written) == durable
\* What a power loss leaves once the directory is flushed.
FsyncDirectory(written) == written

\* fsync of the directory, then the swap in memory and the answer.
ConfirmMutation ==
    /\ mutation # None /\ mutation.step = "replaced"
    /\ durable' = FsyncDirectory(mutation.doc)
    /\ snapshot' = [available |-> TRUE, doc |-> mutation.doc]
    /\ mutation' = None
    /\ accepted' = [accepted EXCEPT ![capsDay] = @ + 1]
    /\ unsettled' = FALSE
    /\ UNCHANGED <<capsFile, document, capsDay>>

\* An OSError of any step: CapsStateUnwritableError, memory as it was.  After
\* the replace the new document stays where it is.
MutationFails ==
    /\ mutation # None
    /\ mutation' = None
    /\ UNCHANGED <<capsFile, document, durable, snapshot, capsDay,
                   accepted, unsettled>>

-----------------------------------------------------------------------------
(* The environment. *)

\* The kernel writes the directory back in its own time.
WriteBack ==
    /\ durable # document
    /\ durable' = document
    /\ UNCHANGED <<capsFile, document, snapshot, mutation, capsDay,
                   accepted, unsettled>>

\* The broker starts again with some version of caps.yaml, after a crash of
\* the process (the files are as they were) or of the machine.
BrokerRestarts ==
    /\ capsFile' \in CapsFiles
    /\ \/ document' = document /\ UNCHANGED unsettled
       \/ document' = durable /\ unsettled' = FALSE
    /\ snapshot' = Loaded(document', capsFile')
    /\ mutation' = None
    /\ UNCHANGED <<durable, capsDay, accepted>>

\* Someone edits the amounts of the document by hand, or it becomes unreadable.
DocumentTampered ==
    \E file \in {Damaged} \cup
                {[document EXCEPT !.accounts[a] = amounts] :
                    a \in CapAccounts,
                    amounts \in IF document \in {Missing, Damaged} THEN {} ELSE HandEdited} :
        /\ mutation = None
        /\ document' = file /\ durable' = file
        /\ unsettled' = TRUE
        /\ UNCHANGED <<capsFile, snapshot, mutation, capsDay, accepted>>

CapsMidnight ==
    /\ capsDay < MaxCapsDay
    /\ mutation = None
    /\ capsDay' = capsDay + 1
    /\ UNCHANGED <<capsFile, document, durable, snapshot, mutation,
                   accepted, unsettled>>

CapsNext ==
    \/ \E a \in CapAccounts, amounts \in Requestable : SetAccountCaps(a, amounts)
    \/ \E a \in CapAccounts : DeleteAccountCaps(a)
    \/ ReplaceDocument
    \/ ConfirmMutation
    \/ MutationFails
    \/ WriteBack
    \/ BrokerRestarts
    \/ DocumentTampered
    \/ CapsMidnight

CapsSpec == CapsInit /\ [][CapsNext]_capsVars

-----------------------------------------------------------------------------
(* Properties. *)

\* Every variable keeps its type, and the snapshot is always a whole document.
CapsTypeOK ==
    /\ capsFile \in CapsFiles
    /\ document \in Documents \cup {Missing, Damaged}
    /\ durable \in Documents \cup {Missing, Damaged}
    /\ snapshot \in [available : BOOLEAN, doc : Documents]
    /\ mutation \in {None} \cup [doc : Documents, step : {"temporary", "replaced"}]
    /\ capsDay \in CapsDays
    /\ accepted \in [CapsDays -> Nat]
    /\ unsettled \in BOOLEAN

\* Whatever was written into the document by hand, and whatever version of
\* caps.yaml the broker started with, an account never gets more than its
\* file entry or, without one, than the envelope (hard_caps_policy, i2).
AuthorityHolds ==
    \A a \in CapAccounts :
        LET caps == EffectiveCaps(a)
            file == capsFile.accounts[a]
        IN  caps # None =>
                \A f \in SettableFields :
                    caps[f] <= IF file # None THEN file[f] ELSE capsFile.envelope[f]

\* No more changes of caps are confirmed in a day than the envelope allows,
\* over crashes, power losses and failed writes (caps_state.py, i6).
ChangesWithinBudget == \A d \in CapsDays : accepted[d] <= MaxChangesPerDay

\* What was confirmed to the owner is what a power loss leaves, and what the
\* broker would load then is what it decides with now (caps_state.py, i5).
ConfirmedIsKept ==
    capsFile.envelope # None /\ ~unsettled => snapshot = LoadSnapshot(durable)

\* "Ignoring the panel's state is always equally or more restrictive than
\* applying it" (hard_caps_policy.py:8): the fallback of every failure.
IgnoringIsStricter ==
    \A a \in CapAccounts : AtMostAsPermissive(capsFile.accounts[a], EffectiveCaps(a))
=============================================================================
