--------------------------- MODULE RollbackJournal ---------------------------
(***************************************************************************)
(* The record and recovery state machine of crates/hns-rollback-journal:   *)
(* the operations a broker calls on one external journal record.  The      *)
(* crate is pure: an operation takes the loaded record, the lease context  *)
(* and an exact observation of the protected database, and returns a       *)
(* proposed write.  Here an operation is the set of mutations it can       *)
(* return: one mutation for Ok, the empty set for Err.                     *)
(*                                                                         *)
(* Fingerprints (of a record, a binding, an image) are collision-free, so  *)
(* comparing fingerprints is comparing the values themselves.  The         *)
(* transition and retirement identifiers are hashes of the other fields of *)
(* a record and are left out.                                              *)
(***************************************************************************)
EXTENDS Naturals

CONSTANTS
    Bindings,       \* journal namespaces (JournalBinding values)
    Fingerprints,   \* contents of a protocol snapshot, one revision apart
    Seals,          \* sealed forms (nonce and ciphertext) of one snapshot
    MaxRevision,    \* u64::MAX, the last journal revision
    NoRecord,       \* the backend holds no record
    NoImage,        \* a state without that image
    NoSeal,         \* a retired record keeps an identity and no ciphertext
    Absent          \* DatabaseObservation::Absent

ASSUME MaxRevisionOdd == MaxRevision \in Nat /\ MaxRevision % 2 = 1

-----------------------------------------------------------------------------
\* Values.

\* A protocol revision, its semantic fingerprint and its plaintext bytes; the
\* two fingerprints always move together and are one field.
StateIdentity == [revision : Nat, fingerprint : Fingerprints]

SnapshotImage == [identity : StateIdentity, seal : Seals]

\* What a retired record keeps of its last image: the identity alone.
Tombstone == [identity : StateIdentity, seal : {NoSeal}]

DatabaseObservation == StateIdentity \union {Absent}

\* One variant of the enum per line, with the images it carries.
JournalState ==
    [kind : {"NeverInitialized"}, current : {NoImage}, new : {NoImage}]
    \union [kind : {"Stable"}, current : SnapshotImage, new : {NoImage}]
    \union [kind : {"Prepared"}, current : SnapshotImage, new : SnapshotImage]
    \union [kind : {"Retired"}, current : Tombstone, new : {NoImage}]

\* JournalRecord::validate: the parity of the revision is fixed by the state,
\* and a prepared transition advances the protocol revision.
Validate(r) ==
    /\ r.state.kind = "NeverInitialized" => r.revision = 0
    /\ r.state.kind = "Stable" => r.revision % 2 = 1
    /\ r.state.kind = "Prepared" =>
            /\ r.revision >= 2 /\ r.revision % 2 = 0
            /\ r.state.new.identity.revision > r.state.current.identity.revision
    /\ r.state.kind = "Retired" => r.revision >= 2 /\ r.revision % 2 = 0

\* The fields are private: a JournalRecord comes from a constructor or from
\* decode, and both validate it.
JournalRecord ==
    {r \in [binding : Bindings, revision : 0..MaxRevision, state : JournalState] :
        Validate(r)}

\* `current` is Stable's current, Prepared's old and Retired's last.
State(kind, current, new) == [kind |-> kind, current |-> current, new |-> new]

NeverInitialized == State("NeverInitialized", NoImage, NoImage)
Stable(current) == State("Stable", current, NoImage)
Prepared(old, new) == State("Prepared", old, new)
Retired(last) == State("Retired", [identity |-> last, seal |-> NoSeal], NoImage)

\* A fenced write: the exact prior record (NoRecord for absence), the token of
\* the lease it was built under, and the record to store.
JournalMutation == [binding  : Bindings,
                    token    : Nat,
                    prior    : JournalRecord \union {NoRecord},
                    proposed : JournalRecord]

ASSUME SentinelsDistinct ==
    /\ NoRecord \notin JournalRecord
    /\ NoImage \notin SnapshotImage
    /\ Absent \notin StateIdentity

LeaseContext(binding, token) == [binding |-> binding, token |-> token]

-----------------------------------------------------------------------------
EnsureLeaseBinding(r, lease) == lease.binding = r.binding

\* Mutated form: the revision is advanced without checked_add.
NextUnchecked(r, lease, state) ==
    LET proposed == [binding |-> r.binding, revision |-> r.revision + 1, state |-> state]
    IN  IF Validate(proposed)
        THEN {[binding |-> r.binding, token |-> lease.token,
               prior |-> r, proposed |-> proposed]}
        ELSE {}

NextMutation(r, lease, state) ==
    LET proposed == [binding |-> r.binding, revision |-> r.revision + 1, state |-> state]
    IN  IF r.revision + 1 <= MaxRevision /\ Validate(proposed)
        THEN {[binding |-> r.binding, token |-> lease.token,
               prior |-> r, proposed |-> proposed]}
        ELSE {}

PrivilegedProvision(binding, lease) ==
    IF lease.binding = binding
    THEN {[binding |-> binding, token |-> lease.token, prior |-> NoRecord,
           proposed |-> [binding |-> binding, revision |-> 0, state |-> NeverInitialized]]}
    ELSE {}

PrivilegedEnroll(r, lease, database, current) ==
    IF /\ EnsureLeaseBinding(r, lease)
       /\ r.state.kind = "NeverInitialized"
       /\ database = current.identity
    THEN NextMutation(r, lease, Stable(current))
    ELSE {}

\* A prepare also needs the revision after its own, the one that finalizes it.
PrepareTransition(r, lease, database, new) ==
    IF /\ EnsureLeaseBinding(r, lease)
       /\ r.state.kind = "Stable"
       /\ database = r.state.current.identity
       /\ new.identity.revision > r.state.current.identity.revision
       /\ r.revision + 2 <= MaxRevision
    THEN NextMutation(r, lease, Prepared(r.state.current, new))
    ELSE {}

\* Mutated form: finalizes while the database still holds the old state.
FinalizeBeforeCas(r, lease, database) ==
    IF /\ EnsureLeaseBinding(r, lease)
       /\ r.state.kind = "Prepared"
       /\ database = r.state.current.identity
    THEN NextMutation(r, lease, Stable(r.state.new))
    ELSE {}

\* Mutated form: a finalization that keeps the old image, an abort.
FinalizeAborts(r, lease, database) ==
    IF /\ EnsureLeaseBinding(r, lease)
       /\ r.state.kind = "Prepared"
       /\ database = r.state.new.identity
    THEN NextMutation(r, lease, Stable(r.state.current))
    ELSE {}

FinalizePrepared(r, lease, database) ==
    IF /\ EnsureLeaseBinding(r, lease)
       /\ r.state.kind = "Prepared"
       /\ database = r.state.new.identity
    THEN NextMutation(r, lease, Stable(r.state.new))
    ELSE {}

PrivilegedRetire(r, lease, database) ==
    IF /\ EnsureLeaseBinding(r, lease)
       /\ r.state.kind = "Stable"
       /\ database = r.state.current.identity
    THEN NextMutation(r, lease, Retired(r.state.current.identity))
    ELSE {}

-----------------------------------------------------------------------------
\* Mutated form: the expected prior record is not compared.
MatchesBindingOnly(m, loaded) ==
    loaded # NoRecord => loaded.binding = m.binding

\* JournalWriteExpectation::matches against what the backend holds.
Matches(m, loaded) ==
    /\ loaded = m.prior
    /\ loaded # NoRecord => loaded.binding = m.binding

\* Mutated form: an unanswered write over the prior record counts as stored.
ReconcileAssumesCommit(m, loaded) ==
    IF loaded = m.proposed \/ Matches(m, loaded) THEN "Committed" ELSE "FailClosedConflict"

\* JournalMutation::reconcile: the outcome of a write nobody answered.
Reconcile(m, loaded) ==
    IF loaded = m.proposed THEN "Committed"
    ELSE IF Matches(m, loaded) THEN "RetryExact" ELSE "FailClosedConflict"

-----------------------------------------------------------------------------
\* JournalRecord::recovery_plan.  Every plan that writes the database expects
\* exactly the observation it was made from; `image` is what it writes.
Plan(action, image) == [action |-> action, image |-> image]

FailClosed(reason) == Plan(reason, NoImage)

\* Mutated form: a rolled back database is served as it is.
StaleIsReady(current, database) ==
    CASE database = current.identity -> Plan("Ready", current)
      [] database = Absent -> Plan("RestoreStableThenReread", current)
      [] OTHER -> IF database.revision <= current.identity.revision
                  THEN Plan("Ready", current)
                  ELSE FailClosed("DatabaseAhead")

\* Mutated form: the two revision comparisons are swapped.
StableSwapped(current, database) ==
    CASE database = current.identity -> Plan("Ready", current)
      [] database = Absent -> Plan("RestoreStableThenReread", current)
      [] OTHER -> IF database.revision > current.identity.revision
                  THEN Plan("RestoreStableThenReread", current)
                  ELSE FailClosed("DatabaseAhead")

StablePlan(current, database) ==
    CASE database = current.identity -> Plan("Ready", current)
      [] database = Absent -> Plan("RestoreStableThenReread", current)
      [] OTHER ->
            IF database.revision < current.identity.revision
            THEN Plan("RestoreStableThenReread", current)
            ELSE IF database.revision = current.identity.revision
                 THEN FailClosed("SameRevisionFork")
                 ELSE FailClosed("DatabaseAhead")

\* Mutated form: a database that holds the new state is ready at once.
PreparedIsReady(old, new, database) ==
    CASE database = old.identity -> Plan("RetryPreparedDatabaseCas", new)
      [] database = new.identity -> Plan("Ready", new)
      [] OTHER -> Plan("RestorePreparedOldThenReread", old)

\* Mutated form: the prepared CAS is not retried after a restart.
PreparedNotRetried(old, new, database) ==
    CASE database = old.identity -> Plan("Ready", old)
      [] database = new.identity -> Plan("FinalizePrepared", NoImage)
      [] OTHER -> Plan("RestorePreparedOldThenReread", old)

PreparedPlan(old, new, database) ==
    CASE database = old.identity -> Plan("RetryPreparedDatabaseCas", new)
      [] database = new.identity -> Plan("FinalizePrepared", NoImage)
      [] database = Absent -> Plan("RestorePreparedOldThenReread", old)
      [] OTHER ->
            IF database.revision < old.identity.revision
            THEN Plan("RestorePreparedOldThenReread", old)
            ELSE IF database.revision \in {old.identity.revision, new.identity.revision}
                 THEN FailClosed("SameRevisionFork")
                 ELSE IF database.revision > new.identity.revision
                      THEN FailClosed("DatabaseAhead")
                      ELSE FailClosed("UnexpectedIntermediateState")

RecoveryPlan(r, expected, database) ==
    CASE r.binding # expected -> FailClosed("BindingMismatch")
      [] OTHER ->
            CASE r.state.kind = "NeverInitialized" -> FailClosed("NotEnrolled")
              [] r.state.kind = "Retired" -> FailClosed("Retired")
              [] r.state.kind = "Stable" -> StablePlan(r.state.current, database)
              [] r.state.kind = "Prepared" ->
                    PreparedPlan(r.state.current, r.state.new, database)

PlanRecovery(expected, loaded, database) ==
    IF loaded = NoRecord THEN FailClosed("MissingJournalRecord")
    ELSE RecoveryPlan(loaded, expected, database)

FailClosedReasons == {"MissingJournalRecord", "BindingMismatch", "NotEnrolled", "Retired",
                      "SameRevisionFork", "DatabaseAhead", "UnexpectedIntermediateState"}

RestorePlans == {"RestoreStableThenReread", "RestorePreparedOldThenReread",
                 "RetryPreparedDatabaseCas"}
=============================================================================
