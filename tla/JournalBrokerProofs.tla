------------------------- MODULE JournalBrokerProofs -------------------------
(***************************************************************************)
(* Proofs about JournalBroker for any set of brokers, bindings, contents   *)
(* and any number of faults.  The argument never looks at a lease: every   *)
(* mutation in flight was built by one operation of the crate from its own *)
(* `prior` record, and is stored only over exactly that record, so each    *)
(* stored write is one legal step of the record's life (LegalMutation).    *)
(***************************************************************************)
EXTENDS JournalBroker, TLAPS

-----------------------------------------------------------------------------
\* The inductive invariant.

Kinds == {"NeverInitialized", "Stable", "Prepared", "Retired"}

\* The type of a record, spelled out: images where its state has them, and the
\* revision parity of validate.
GoodRecord(r) ==
    /\ r \in JournalRecord
    /\ r.binding \in Bindings
    /\ r.revision \in 0..MaxRevision
    /\ r.state \in JournalState
    /\ r.state.kind \in Kinds
    /\ Validate(r)
    /\ r.state.kind \in {"Stable", "Prepared"} => r.state.current \in SnapshotImage
    /\ r.state.kind = "Prepared" => r.state.new \in SnapshotImage
    /\ r.state.kind = "Retired" => r.state.current \in Tombstone

\* One step of a record's life, as one of the five operations builds it.
LegalMutation(m) ==
    /\ m \in JournalMutation
    /\ GoodRecord(m.proposed)
    /\ \/ /\ m.prior = NoRecord
          /\ m.proposed.state.kind = "NeverInitialized"
       \/ /\ m.prior # NoRecord
          /\ m.proposed.binding = m.prior.binding
          /\ m.proposed.revision = m.prior.revision + 1
          /\ \/ /\ m.prior.state.kind = "NeverInitialized"
                /\ m.proposed.state.kind = "Stable"
             \/ /\ m.prior.state.kind = "Stable"
                /\ m.proposed.state.kind = "Prepared"
                /\ m.proposed.state.current = m.prior.state.current
             \/ /\ m.prior.state.kind = "Prepared"
                /\ m.proposed.state = Stable(m.prior.state.new)
             \/ /\ m.prior.state.kind = "Stable"
                /\ m.proposed.state.kind = "Retired"
                /\ m.proposed.state.current.identity = m.prior.state.current.identity

\* The record's current state is the newest settled one.
SettledHistory(r) ==
    IF r = NoRecord \/ (r # NoRecord /\ r.state.kind = "NeverInitialized")
    THEN settled = {}
    ELSE /\ r.state.current.identity \in settled
         /\ \A i \in settled :
                \/ i = r.state.current.identity
                \/ i.revision < r.state.current.identity.revision

\* What a broker remembers was once stored.
BrokerKnowledge(s) ==
    /\ s.rec # NoRecord => GoodRecord(s.rec)
    /\ s.rec # NoRecord /\ s.rec.state.kind = "Stable" =>
            s.rec.state.current.identity \in settled
    /\ s.pc = "ready" => /\ s.rec # NoRecord /\ s.rec.state.kind = "Stable"
                         /\ s.obs = s.rec.state.current.identity
    /\ s.mut # NoMutation => LegalMutation(s.mut)
    /\ s.pc = "journalWait" => s.mut # NoMutation

UniqueRevisions == \A i, j \in settled : i.revision = j.revision => i = j

JournalInv ==
    /\ TypeOK
    /\ record # NoRecord => GoodRecord(record)
    /\ \A m \in jsent : LegalMutation(m)
    /\ \A b \in Brokers : BrokerKnowledge(broker[b])
    /\ SettledHistory(record)
    /\ UniqueRevisions
    /\ {e.identity : e \in exposed} \subseteq settled

-----------------------------------------------------------------------------
\* The operations of the crate build legal mutations.

\* The type of a record says what its state carries and that it is valid.
LEMMA RecordFacts ==
    ASSUME NEW r \in JournalRecord
    PROVE  GoodRecord(r)
  <1>1. /\ r.binding \in Bindings /\ r.revision \in 0..MaxRevision
        /\ r.state \in JournalState /\ Validate(r)
    BY DEF JournalRecord
  <1>2. /\ r.state.kind \in Kinds
        /\ r.state.kind \in {"Stable", "Prepared"} => r.state.current \in SnapshotImage
        /\ r.state.kind = "Prepared" => r.state.new \in SnapshotImage
        /\ r.state.kind = "Retired" => r.state.current \in Tombstone
    BY <1>1 DEF JournalState, Kinds
  <1>3. QED
    BY <1>1, <1>2 DEF GoodRecord

\* next_mutation keeps the binding, advances the revision by one, takes the
\* prior record whole and proposes a valid record.
LEMMA NextMutationFacts ==
    ASSUME NEW r, GoodRecord(r), NEW lease \in [binding : Bindings, token : Nat],
           NEW state \in JournalState, NEW m \in NextMutation(r, lease, state)
    PROVE  /\ m \in JournalMutation
           /\ m.prior = r /\ r # NoRecord
           /\ m.proposed.state = state
           /\ m.proposed.binding = r.binding
           /\ m.proposed.revision = r.revision + 1
           /\ GoodRecord(m.proposed)
  <1> DEFINE proposed == [binding |-> r.binding, revision |-> r.revision + 1, state |-> state]
  <1>1. m = [binding |-> r.binding, token |-> lease.token, prior |-> r, proposed |-> proposed]
        /\ Validate(proposed) /\ r.revision + 1 <= MaxRevision
    BY DEF NextMutation
  <1>2. r \in JournalRecord /\ r.binding \in Bindings /\ r.revision \in 0..MaxRevision
    BY DEF GoodRecord
  <1>3. proposed \in [binding : Bindings, revision : 0..MaxRevision, state : JournalState]
    BY <1>1, <1>2, MaxRevisionOdd
  <1>4. proposed \in JournalRecord
    BY <1>1, <1>3 DEF JournalRecord
  <1>5. GoodRecord(proposed)
    BY <1>4, RecordFacts
  <1> HIDE DEF proposed
  <1>6. m \in JournalMutation
    BY <1>1, <1>2, <1>4 DEF JournalMutation
  <1>7. QED
    BY <1>1, <1>2, <1>5, <1>6, SentinelsDistinct DEF proposed

\* privileged_provision writes the first record of a binding.
LEMMA ProvisionLegal ==
    ASSUME NEW binding \in Bindings, NEW lease \in [binding : Bindings, token : Nat],
           NEW m \in PrivilegedProvision(binding, lease)
    PROVE  LegalMutation(m)
  <1> DEFINE first == [binding |-> binding, revision |-> 0, state |-> NeverInitialized]
  <1>1. NeverInitialized \in JournalState /\ NeverInitialized.kind = "NeverInitialized"
    BY DEF NeverInitialized, State, JournalState
  <1>2. m = [binding |-> binding, token |-> lease.token, prior |-> NoRecord,
             proposed |-> first]
    BY DEF PrivilegedProvision
  <1>3. first \in [binding : Bindings, revision : 0..MaxRevision, state : JournalState]
    BY <1>1, MaxRevisionOdd
  <1>4. Validate(first)
    BY <1>1 DEF Validate
  <1>5. first \in JournalRecord
    BY <1>3, <1>4 DEF JournalRecord
  <1>6. GoodRecord(first) /\ first.state.kind = "NeverInitialized"
    BY <1>1, <1>5, RecordFacts
  <1> HIDE DEF first
  <1>7. m \in JournalMutation
    BY <1>2, <1>5 DEF JournalMutation
  <1>8. QED
    BY <1>2, <1>6, <1>7 DEF LegalMutation

\* privileged_enroll turns the marker into a Stable record.
LEMMA EnrollLegal ==
    ASSUME NEW r, GoodRecord(r), NEW lease \in [binding : Bindings, token : Nat],
           NEW database, NEW image \in SnapshotImage,
           NEW m \in PrivilegedEnroll(r, lease, database, image)
    PROVE  LegalMutation(m)
  <1>1. Stable(image) \in JournalState /\ Stable(image).kind = "Stable"
    BY DEF Stable, State, JournalState
  <1>2. r.state.kind = "NeverInitialized" /\ m \in NextMutation(r, lease, Stable(image))
    BY DEF PrivilegedEnroll
  <1>3. QED
    BY <1>1, <1>2, NextMutationFacts DEF LegalMutation

\* prepare_transition keeps the current image and leaves a revision to finalize.
LEMMA PrepareLegal ==
    ASSUME NEW r, GoodRecord(r), NEW lease \in [binding : Bindings, token : Nat],
           NEW database, NEW image \in SnapshotImage,
           NEW m \in PrepareTransition(r, lease, database, image)
    PROVE  LegalMutation(m)
  <1> DEFINE p == Prepared(r.state.current, image)
  <1>1. r.state.kind = "Stable" /\ m \in NextMutation(r, lease, p)
    BY DEF PrepareTransition
  <1>2. r.state.current \in SnapshotImage
    BY <1>1 DEF GoodRecord
  <1>3. p \in JournalState /\ p.kind = "Prepared" /\ p.current = r.state.current
    BY <1>2 DEF Prepared, State, JournalState
  <1> HIDE DEF p
  <1>4. QED
    BY <1>1, <1>3, NextMutationFacts DEF LegalMutation

\* finalize_prepared makes the prepared image the current one.
LEMMA FinalizeLegal ==
    ASSUME NEW r, GoodRecord(r), NEW lease \in [binding : Bindings, token : Nat],
           NEW database, NEW m \in FinalizePrepared(r, lease, database)
    PROVE  LegalMutation(m)
  <1>1. r.state.kind = "Prepared" /\ m \in NextMutation(r, lease, Stable(r.state.new))
    BY DEF FinalizePrepared
  <1>2. r.state.new \in SnapshotImage
    BY <1>1 DEF GoodRecord
  <1>3. Stable(r.state.new) \in JournalState
    BY <1>2 DEF Stable, State, JournalState
  <1>4. QED
    BY <1>1, <1>3, NextMutationFacts DEF LegalMutation

\* privileged_retire keeps only the identity of the last state.
LEMMA RetireLegal ==
    ASSUME NEW r, GoodRecord(r), NEW lease \in [binding : Bindings, token : Nat],
           NEW database, NEW m \in PrivilegedRetire(r, lease, database)
    PROVE  LegalMutation(m)
  <1> DEFINE p == Retired(r.state.current.identity)
  <1>1. r.state.kind = "Stable" /\ m \in NextMutation(r, lease, p)
    BY DEF PrivilegedRetire
  <1>2. r.state.current.identity \in StateIdentity
    BY <1>1 DEF GoodRecord, SnapshotImage
  <1>3. p \in JournalState /\ p.kind = "Retired"
        /\ p.current.identity = r.state.current.identity
    BY <1>2 DEF Retired, State, JournalState, Tombstone
  <1> HIDE DEF p
  <1>4. QED
    BY <1>1, <1>3, NextMutationFacts DEF LegalMutation

-----------------------------------------------------------------------------
\* Steps of a broker that only change what it remembers or hands out.

\* A broker that has just started knows nothing, which is always correct.
LEMMA IdleKnowledge == IdleBroker \in BrokerState /\ BrokerKnowledge(IdleBroker)
  BY Zenon DEF IdleBroker, BrokerState, BrokerKnowledge, Phases, DatabaseObservation

\* The lease a broker works under names a binding and a fencing token.
LEMMA LeaseType ==
    ASSUME TypeOK, NEW b \in Brokers
    PROVE  Lease(b) \in [binding : Bindings, token : Nat]
  BY BrokerAssumption, Zenon DEF TypeOK, Lease, LeaseContext, BrokerState

\* A step that leaves the stored record, its history and the results alone
\* keeps the invariant when brokers still know only stored records and every
\* mutation is legal.
LEMMA QuietStep ==
    ASSUME JournalInv, TypeOK',
           UNCHANGED <<record, settled, exposed>>,
           \A m \in jsent' : LegalMutation(m),
           \A b \in Brokers : BrokerKnowledge(broker[b])'
    PROVE  JournalInv'
  BY Zenon DEF JournalInv, SettledHistory, UniqueRevisions

\* One broker moves to state s; what it knows in s was stored.
LEMMA LocalStep ==
    ASSUME JournalInv, NEW b \in Brokers, NEW s \in BrokerState, BrokerKnowledge(s),
           broker' = [broker EXCEPT ![b] = s],
           UNCHANGED <<storeVars, exposed, foreign>>,
           jfence' \in Nat, dfence' \in Nat, jholder' \in Brokers \union {NoBroker}, faults' \in Nat
    PROVE  JournalInv'
  <1>1. TypeOK'
    BY Zenon DEF JournalInv, TypeOK, storeVars
  <1>2. \A c \in Brokers : BrokerKnowledge(broker[c])'
    BY Zenon DEF JournalInv, TypeOK, BrokerKnowledge, storeVars
  <1>3. QED
    BY <1>1, <1>2, QuietStep, Zenon DEF JournalInv, storeVars

\* Submitting a legal mutation to the journal keeps the invariant.
LEMMA SendStep ==
    ASSUME JournalInv, NEW b \in Brokers, NEW m, LegalMutation(m), SendMutation(b, m)
    PROVE  JournalInv'
  <1> DEFINE s == [broker[b] EXCEPT !.pc = "journalWait", !.mut = m]
  <1>1. broker[b] \in BrokerState /\ BrokerKnowledge(broker[b])
    BY Zenon DEF JournalInv, TypeOK
  <1>2. m \in JournalMutation /\ m # NoMutation
    BY BrokerAssumption, Zenon DEF LegalMutation
  <1>3. s \in BrokerState
    BY <1>1, <1>2, Zenon DEF BrokerState, Phases
  <1>4. /\ s.rec = broker[b].rec /\ s.mut = m /\ s.pc = "journalWait"
    BY <1>1, Zenon DEF BrokerState
  <1>5. broker' = [broker EXCEPT ![b] = s]
    BY Zenon DEF SendMutation, JournalInv, TypeOK
  <1> HIDE DEF s
  <1>6. BrokerKnowledge(s)
    BY <1>1, <1>2, <1>4, Zenon DEF BrokerKnowledge
  <1>7. \A c \in Brokers : BrokerKnowledge(broker[c])'
    <2>1. \A c \in Brokers : broker'[c] = IF c = b THEN s ELSE broker[c]
      BY <1>5, Zenon DEF JournalInv, TypeOK
    <2>2. settled' = settled
      BY Zenon DEF SendMutation
    <2>3. \A c \in Brokers : BrokerKnowledge(broker'[c])
      BY <1>6, <2>1, Zenon DEF JournalInv
    <2>4. QED
      BY <2>2, <2>3, Zenon DEF BrokerKnowledge
  <1>8. TypeOK'
    BY <1>2, <1>3, <1>5, Zenon DEF JournalInv, TypeOK, SendMutation, leaseVars, faultVars
  <1>9. \A n \in jsent' : LegalMutation(n)
    BY Zenon DEF JournalInv, SendMutation
  <1>10. QED
    BY <1>7, <1>8, <1>9, QuietStep, Zenon DEF SendMutation

-----------------------------------------------------------------------------
\* The stored record changes: every stored write is one legal step.

\* A write that matches the stored record replaces it by its legal successor.
LEMMA StoreStep ==
    ASSUME JournalInv, NEW m \in jsent, Matches(m, record),
           record' = m.proposed, settled' = settled \union NewlySettled(m.proposed)
    PROVE  /\ record' # NoRecord
           /\ GoodRecord(record')
           /\ SettledHistory(record)'
           /\ UniqueRevisions'
           /\ settled \subseteq settled'
           /\ settled' \subseteq StateIdentity
  <1>1. LegalMutation(m) /\ m.prior = record
    BY Zenon DEF JournalInv, Matches
  <1>2. GoodRecord(record') /\ record' # NoRecord
    BY <1>1, SentinelsDistinct, Zenon DEF LegalMutation, GoodRecord
  <1>3. record # NoRecord => GoodRecord(record)
    BY Zenon DEF JournalInv
  <1>4. settled \subseteq StateIdentity
    BY Zenon DEF JournalInv, TypeOK
  <1>5. CASE record = NoRecord
    BY <1>1, <1>2, <1>4, <1>5, Zenon DEF LegalMutation, JournalInv, SettledHistory,
        UniqueRevisions, NewlySettled
  <1>6. CASE record # NoRecord /\ record.state.kind = "NeverInitialized"
    <2>1. record'.state.kind = "Stable" /\ settled = {}
      BY <1>1, <1>6, Zenon DEF LegalMutation, JournalInv, SettledHistory
    <2>2. settled' = {record'.state.current.identity}
      BY <2>1, Zenon DEF NewlySettled
    <2>3. record'.state.current.identity \in StateIdentity
      BY <1>2, <2>1, Zenon DEF GoodRecord, SnapshotImage
    <2>4. QED
      BY <1>2, <2>1, <2>2, <2>3, Zenon DEF SettledHistory, UniqueRevisions
  <1>7. CASE record # NoRecord /\ record.state.kind = "Stable"
    <2>1. /\ record'.state.kind \in {"Prepared", "Retired"}
          /\ record'.state.current.identity = record.state.current.identity
      BY <1>1, <1>7, Zenon DEF LegalMutation
    <2>2. settled' = settled
      BY <2>1, Zenon DEF NewlySettled
    <2>3. QED
      BY <1>2, <1>4, <1>7, <2>1, <2>2, Zenon DEF JournalInv, SettledHistory, UniqueRevisions
  <1>8. CASE record # NoRecord /\ record.state.kind = "Prepared"
    <2>1. record'.state.kind = "Stable" /\ record'.state.current = record.state.new
      BY <1>1, <1>8 DEF LegalMutation, Stable, State
    <2> DEFINE old == record.state.current.identity
               new == record.state.new.identity
    <2>2. old \in StateIdentity /\ new \in StateIdentity /\ new.revision > old.revision
      BY <1>3, <1>8, Zenon DEF GoodRecord, SnapshotImage, Validate
    <2>3. settled' = settled \union {new}
      BY <2>1, Zenon DEF NewlySettled
    <2>4. \A i \in settled : i.revision \in Nat /\ i.revision < new.revision
      BY <1>4, <1>8, <2>2 DEF JournalInv, SettledHistory, StateIdentity
    <2>5. SettledHistory(record)'
      BY <1>2, <2>1, <2>3, <2>4, Zenon DEF SettledHistory
    <2>6. UniqueRevisions'
      BY <2>2, <2>3, <2>4 DEF UniqueRevisions, JournalInv, StateIdentity
    <2>7. QED
      BY <1>2, <1>4, <2>2, <2>3, <2>5, <2>6, Zenon
  <1>9. record # NoRecord => record.state.kind \in Kinds \ {"Retired"}
    BY <1>1, <1>3, Zenon DEF LegalMutation, GoodRecord
  <1>10. QED
    BY <1>5, <1>6, <1>7, <1>8, <1>9, Zenon DEF Kinds

\* Storing a write, with or without an answer to the broker that waits for it.
LEMMA ApplyStep ==
    ASSUME JournalInv, NEW m \in jsent, ApplyJournalWrite(m)
    PROVE  JournalInv'
  <1>1. /\ record' # NoRecord /\ GoodRecord(record') /\ SettledHistory(record)'
        /\ UniqueRevisions' /\ settled \subseteq settled' /\ settled' \subseteq StateIdentity
    BY StoreStep, Zenon DEF ApplyJournalWrite
  <1>2. LegalMutation(m) /\ GoodRecord(m.proposed) /\ m.proposed \in JournalRecord
        /\ m.proposed # NoRecord /\ record' = m.proposed
    BY SentinelsDistinct, Zenon DEF JournalInv, LegalMutation, GoodRecord, ApplyJournalWrite
  <1>3. PICK answered \in BOOLEAN :
            broker' = [b \in Brokers |-> IF answered /\ Awaits(b, m)
                                         THEN AfterCommit(broker[b]) ELSE broker[b]]
    BY Zenon DEF ApplyJournalWrite
  <1>4. ASSUME NEW b \in Brokers
        PROVE  broker'[b] \in BrokerState /\ BrokerKnowledge(broker[b])'
    <2>1. broker[b] \in BrokerState /\ BrokerKnowledge(broker[b])
      BY Zenon DEF JournalInv, TypeOK
    <2>2. CASE answered /\ Awaits(b, m)
      <3>1. broker'[b] = AfterCommit(broker[b]) /\ broker[b].mut = m
        BY <1>3, <2>2, Zenon DEF Awaits
      <3>2. /\ broker'[b] \in BrokerState
            /\ broker'[b].pc = "plan"
            /\ broker'[b].rec = m.proposed
            /\ broker'[b].mut = NoMutation
        BY <1>2, <2>1, <3>1, Zenon DEF AfterCommit, BrokerState, Phases
      <3>3. m.proposed.state.kind = "Stable" =>
                m.proposed.state.current.identity \in settled'
        BY Zenon DEF ApplyJournalWrite, NewlySettled
      <3>4. QED
        BY <1>2, <3>2, <3>3, Zenon DEF BrokerKnowledge
    <2>3. CASE ~(answered /\ Awaits(b, m))
      BY <1>1, <1>3, <2>1, <2>3, Zenon DEF BrokerKnowledge
    <2>4. QED
      BY <2>2, <2>3, Zenon
  <1>5. broker' \in [Brokers -> BrokerState]
    BY <1>3, <1>4, Zenon
  <1>6. TypeOK'
    BY <1>1, <1>2, <1>5, Zenon DEF JournalInv, TypeOK, ApplyJournalWrite, leaseVars, faultVars
  <1>7. UNCHANGED <<jsent, exposed>>
    BY Zenon DEF ApplyJournalWrite
  <1>8. QED
    BY <1>1, <1>4, <1>6, <1>7, Zenon DEF JournalInv

\* An unanswered write is reloaded and reconciled.
LEMMA ReconcileStep ==
    ASSUME JournalInv, NEW b \in Brokers, ReconcileWrite(b)
    PROVE  JournalInv'
  <1> DEFINE m == broker[b].mut
  <1>1. broker[b] \in BrokerState /\ BrokerKnowledge(broker[b])
        /\ broker[b].pc = "journalWait"
    BY Zenon DEF JournalInv, TypeOK, ReconcileWrite
  <1>2. LegalMutation(m) /\ m \in JournalMutation
    BY <1>1, Zenon DEF BrokerKnowledge, LegalMutation
  <1>3. jsent' \subseteq jsent \union {m}
    BY Zenon DEF ReconcileWrite
  <1>4. UNCHANGED <<record, db, dsent, past, settled, leaseVars, faultVars, exposed>>
    BY Zenon DEF ReconcileWrite
  <1>5. /\ broker'[b] \in BrokerState /\ BrokerKnowledge(broker[b])'
        /\ \A c \in Brokers : c # b => broker'[c] = broker[c]
        /\ broker' \in [Brokers -> BrokerState]
    <2>1. CASE Reconcile(m, record) = "Committed"
      <3>1. record = m.proposed /\ broker' = [broker EXCEPT ![b] = AfterCommit(broker[b])]
        BY <2>1, Zenon DEF ReconcileWrite, Reconcile
      <3>2. record # NoRecord /\ GoodRecord(record) /\ record \in JournalRecord
        BY <1>2, <3>1, SentinelsDistinct, Zenon DEF LegalMutation, GoodRecord
      <3>3. record.state.kind = "Stable" => record.state.current.identity \in settled
        BY <3>2, Zenon DEF JournalInv, SettledHistory
      <3>4. /\ AfterCommit(broker[b]) \in BrokerState
            /\ AfterCommit(broker[b]).pc = "plan"
            /\ AfterCommit(broker[b]).rec = record
            /\ AfterCommit(broker[b]).mut = NoMutation
        BY <1>1, <3>1, <3>2, Zenon DEF AfterCommit, BrokerState, Phases
      <3>5. broker'[b] = AfterCommit(broker[b])
            /\ \A c \in Brokers : c # b => broker'[c] = broker[c]
        BY <3>1, Zenon DEF JournalInv, TypeOK
      <3>6. BrokerKnowledge(broker[b])'
        BY <1>4, <3>2, <3>3, <3>4, <3>5, Zenon DEF BrokerKnowledge
      <3>7. QED
        BY <3>1, <3>4, <3>5, <3>6, Zenon DEF JournalInv, TypeOK
    <2>2. CASE Reconcile(m, record) = "RetryExact"
      <3>1. broker' = [broker EXCEPT ![b] = broker[b]]
        BY <2>2, Zenon DEF ReconcileWrite
      <3>2. QED
        BY <1>1, <1>4, <3>1, Zenon DEF JournalInv, TypeOK, BrokerKnowledge
    <2>3. CASE Reconcile(m, record) = "FailClosedConflict"
      <3> DEFINE s == [broker[b] EXCEPT !.pc = "failed"]
      <3>1. broker' = [broker EXCEPT ![b] = s]
        BY <2>3, Zenon DEF ReconcileWrite
      <3>2. s \in BrokerState /\ s.pc = "failed" /\ s.rec = broker[b].rec
            /\ s.mut = broker[b].mut
        BY <1>1, Zenon DEF BrokerState, Phases
      <3> HIDE DEF s
      <3>3. broker'[b] = s /\ \A c \in Brokers : c # b => broker'[c] = broker[c]
        BY <3>1, Zenon DEF JournalInv, TypeOK
      <3>4. QED
        BY <1>1, <1>4, <3>1, <3>2, <3>3, Zenon DEF JournalInv, TypeOK, BrokerKnowledge
    <2>4. QED
      BY <2>1, <2>2, <2>3, Zenon DEF Reconcile
  <1>6. TypeOK'
    BY <1>2, <1>3, <1>4, <1>5, Zenon DEF JournalInv, TypeOK, leaseVars, faultVars
  <1>7. \A c \in Brokers : BrokerKnowledge(broker[c])'
    BY <1>4, <1>5 DEF JournalInv, BrokerKnowledge
  <1>8. \A n \in jsent' : LegalMutation(n)
    BY <1>2, <1>3, Zenon DEF JournalInv
  <1>9. QED
    BY <1>4, <1>6, <1>7, <1>8, QuietStep, Zenon

\* A plan that writes the database writes an image of the record it is from.
LEMMA PlanImage ==
    ASSUME NEW r, r # NoRecord => GoodRecord(r), NEW expected,
           NEW database \in DatabaseObservation,
           PlanRecovery(expected, r, database).action \in RestorePlans
    PROVE  /\ r # NoRecord
           /\ LET image == PlanRecovery(expected, r, database).image
              IN  /\ image \in SnapshotImage
                  /\ \/ image = r.state.current /\ r.state.kind \in {"Stable", "Prepared"}
                     \/ image = r.state.new /\ r.state.kind = "Prepared"
  <1> DEFINE plan == PlanRecovery(expected, r, database)
  <1>1. r # NoRecord /\ plan = RecoveryPlan(r, expected, database)
    BY Zenon DEF PlanRecovery, FailClosed, Plan, RestorePlans
  <1>2. r.binding = expected
    BY <1>1 DEF RecoveryPlan, FailClosed, Plan, RestorePlans
  <1>3. r.state.kind \in Kinds
    BY <1>1, Zenon DEF GoodRecord
  <1>4. CASE r.state.kind = "Stable"
    <2>1. plan = StablePlan(r.state.current, database)
      BY <1>1, <1>2, <1>4, Zenon DEF RecoveryPlan
    <2>2. plan.action \in RestorePlans => plan.image = r.state.current
      BY <2>1 DEF StablePlan, Plan, FailClosed, RestorePlans
    <2>3. QED
      BY <1>1, <1>4, <2>2, Zenon DEF GoodRecord
  <1>5. CASE r.state.kind = "Prepared"
    <2>1. plan = PreparedPlan(r.state.current, r.state.new, database)
      BY <1>1, <1>2, <1>5, Zenon DEF RecoveryPlan
    <2>2. plan.action \in RestorePlans => plan.image \in {r.state.current, r.state.new}
      BY <2>1 DEF PreparedPlan, Plan, FailClosed, RestorePlans
    <2>3. QED
      BY <1>1, <1>5, <2>2, Zenon DEF GoodRecord
  <1>6. CASE r.state.kind \in {"NeverInitialized", "Retired"}
    BY <1>1, <1>2, <1>6 DEF RecoveryPlan, FailClosed, Plan, RestorePlans
  <1>7. QED
    BY <1>3, <1>4, <1>5, <1>6, Zenon DEF Kinds

\* plan_recovery says Ready only for a Stable record whose identity is the
\* observed one.
LEMMA PlanReady ==
    ASSUME NEW r, r # NoRecord => GoodRecord(r), NEW expected,
           NEW database \in DatabaseObservation,
           PlanRecovery(expected, r, database).action = "Ready"
    PROVE  r # NoRecord /\ r.state.kind = "Stable" /\ database = r.state.current.identity
  <1> DEFINE plan == PlanRecovery(expected, r, database)
  <1>1. r # NoRecord /\ plan = RecoveryPlan(r, expected, database)
    BY Zenon DEF PlanRecovery, FailClosed, Plan
  <1>2. r.binding = expected
    BY <1>1 DEF RecoveryPlan, FailClosed, Plan
  <1>3. r.state.kind \in Kinds
    BY <1>1, Zenon DEF GoodRecord
  <1>4. CASE r.state.kind = "Prepared"
    BY <1>1, <1>2, <1>4 DEF RecoveryPlan, PreparedPlan, Plan, FailClosed
  <1>5. CASE r.state.kind \in {"NeverInitialized", "Retired"}
    BY <1>1, <1>2, <1>5 DEF RecoveryPlan, FailClosed, Plan
  <1>6. CASE r.state.kind = "Stable"
    <2>1. StablePlan(r.state.current, database).action = "Ready"
      BY <1>1, <1>2, <1>6, Zenon DEF RecoveryPlan
    <2>2. database = r.state.current.identity
      BY <2>1, Zenon DEF StablePlan, Plan, FailClosed
    <2>3. QED
      BY <1>1, <1>6, <2>2, Zenon
  <1>7. QED
    BY <1>1, <1>3, <1>4, <1>5, <1>6, Zenon DEF Kinds

-----------------------------------------------------------------------------
\* Every step keeps the invariant.

\* What a broker does by itself: leases, loads, recovery, finalization.
LEMMA RuntimeKeepsInv ==
    ASSUME JournalInv, NEW b \in Brokers, RuntimeStep(b)
    PROVE  JournalInv'
  <1>1. TypeOK /\ broker[b] \in BrokerState /\ BrokerKnowledge(broker[b])
    BY Zenon DEF JournalInv, TypeOK
  <1>2. CASE AcquireJournalLease(b)
    <2>0. PICK t \in Nat : t = jfence + 1
      BY <1>1 DEF TypeOK
    <2> DEFINE s == [broker[b] EXCEPT !.pc = "journal", !.jtok = t]
    <2>1. s \in BrokerState /\ s.rec = broker[b].rec /\ s.mut = broker[b].mut
          /\ s.pc \notin {"ready", "journalWait"}
      BY <1>1, Zenon DEF BrokerState, Phases
    <2>2. broker' = [broker EXCEPT ![b] = s]
      BY <1>1, <1>2, <2>0, Zenon DEF AcquireJournalLease, TypeOK
    <2> HIDE DEF s
    <2>3. BrokerKnowledge(s)
      BY <1>1, <2>1, Zenon DEF BrokerKnowledge
    <2>4. /\ UNCHANGED <<storeVars, exposed, foreign>>
          /\ jfence' \in Nat /\ dfence' \in Nat
          /\ jholder' \in Brokers \union {NoBroker} /\ faults' \in Nat
      BY <1>1, <1>2 DEF AcquireJournalLease, TypeOK, faultVars
    <2>5. QED
      BY <2>1, <2>2, <2>3, <2>4, LocalStep, Zenon
  <1>3. CASE AcquireDatabaseLease(b)
    <2>0. PICK t \in Nat : t = dfence + 1
      BY <1>1 DEF TypeOK
    <2> DEFINE s == [broker[b] EXCEPT !.pc = "reread", !.dtok = t]
    <2>1. s \in BrokerState /\ s.rec = broker[b].rec /\ s.mut = broker[b].mut
          /\ s.pc \notin {"ready", "journalWait"}
      BY <1>1, Zenon DEF BrokerState, Phases
    <2>2. broker' = [broker EXCEPT ![b] = s]
      BY <1>1, <1>3, <2>0, Zenon DEF AcquireDatabaseLease, TypeOK
    <2> HIDE DEF s
    <2>3. BrokerKnowledge(s)
      BY <1>1, <2>1, Zenon DEF BrokerKnowledge
    <2>4. /\ UNCHANGED <<storeVars, exposed, foreign>>
          /\ jfence' \in Nat /\ dfence' \in Nat
          /\ jholder' \in Brokers \union {NoBroker} /\ faults' \in Nat
      BY <1>1, <1>3 DEF AcquireDatabaseLease, TypeOK, faultVars
    <2>5. QED
      BY <2>1, <2>2, <2>3, <2>4, LocalStep, Zenon
  <1>4. CASE NoticeLeaseLost(b)
    BY <1>1, <1>4, IdleKnowledge, LocalStep, Zenon DEF NoticeLeaseLost, TypeOK, faultVars
  <1>5. CASE LoadRecord(b)
    <2> DEFINE s == [broker[b] EXCEPT !.pc = "observe", !.rec = record]
    <2>1. s \in BrokerState /\ s.pc = "observe" /\ s.rec = record /\ s.mut = broker[b].mut
      BY <1>1, Zenon DEF BrokerState, Phases, TypeOK
    <2>2. BrokerKnowledge(s)
      BY <1>1, <2>1, Zenon DEF BrokerKnowledge, JournalInv, SettledHistory
    <2>3. broker' = [broker EXCEPT ![b] = s]
      BY <1>1, <1>5, Zenon DEF LoadRecord, TypeOK
    <2> HIDE DEF s
    <2>4. QED
      BY <1>1, <1>5, <2>1, <2>2, <2>3, LocalStep, Zenon DEF LoadRecord, TypeOK, faultVars, leaseVars
  <1>6. CASE ObserveDatabase(b)
    <2> DEFINE s == [broker[b] EXCEPT !.pc = "plan", !.obs = db]
    <2>1. s \in BrokerState /\ BrokerKnowledge(s)
      BY <1>1, Zenon DEF BrokerState, BrokerKnowledge, Phases, TypeOK
    <2>2. broker' = [broker EXCEPT ![b] = s]
      BY <1>1, <1>6, Zenon DEF ObserveDatabase, TypeOK
    <2> HIDE DEF s
    <2>3. QED
      BY <1>1, <1>6, <2>1, <2>2, LocalStep, Zenon DEF ObserveDatabase, TypeOK, faultVars, leaseVars
  <1>7. CASE BecomeReady(b)
    <2> DEFINE s == [broker[b] EXCEPT !.pc = "ready"]
    <2>1. /\ broker[b].rec # NoRecord /\ broker[b].rec.state.kind = "Stable"
          /\ broker[b].obs = broker[b].rec.state.current.identity
      BY <1>1, <1>7, PlanReady DEF BecomeReady, CurrentPlan, BrokerState, BrokerKnowledge
    <2>2. s \in BrokerState /\ BrokerKnowledge(s)
      BY <1>1, <2>1, Zenon DEF BrokerState, BrokerKnowledge, Phases
    <2>3. broker' = [broker EXCEPT ![b] = s]
      BY <1>1, <1>7, Zenon DEF BecomeReady, TypeOK
    <2> HIDE DEF s
    <2>4. QED
      BY <1>1, <1>7, <2>2, <2>3, LocalStep, Zenon DEF BecomeReady, TypeOK, faultVars, leaseVars
  <1>8. CASE WriteDatabase(b)
    <2> DEFINE s == [broker[b] EXCEPT !.pc = "reread"]
               w == [expected |-> broker[b].obs, new |-> CurrentPlan(b).image.identity,
                     token |-> broker[b].dtok]
    <2>1. CurrentPlan(b).image \in SnapshotImage
      BY <1>1, <1>8, PlanImage, Zenon DEF WriteDatabase, CurrentPlan, BrokerState, BrokerKnowledge
    <2>2. w \in DatabaseWrite
      BY <1>1, <2>1, Zenon DEF DatabaseWrite, BrokerState, SnapshotImage
    <2>3. s \in BrokerState /\ BrokerKnowledge(s)
      BY <1>1, ZenonT(40) DEF BrokerState, BrokerKnowledge, Phases
    <2>4. broker' = [broker EXCEPT ![b] = s] /\ dsent' = dsent \union {w}
      BY <1>1, <1>8, Zenon DEF WriteDatabase, TypeOK
    <2> HIDE DEF s, w
    <2>5. TypeOK'
      BY <1>1, <1>8, <2>2, <2>3, <2>4, Zenon DEF TypeOK, WriteDatabase, leaseVars, faultVars
    <2>6. \A c \in Brokers : BrokerKnowledge(broker[c])'
      BY <1>1, <1>8, <2>3, <2>4, SMTT(30) DEF JournalInv, TypeOK, BrokerKnowledge, WriteDatabase
    <2>7. QED
      BY <1>8, <2>5, <2>6, QuietStep, Zenon DEF WriteDatabase, JournalInv
  <1>9. CASE Finalize(b)
    <2>1. broker[b].rec # NoRecord
      BY <1>9, Zenon DEF Finalize, CurrentPlan, PlanRecovery, FailClosed, Plan
    <2>2. PICK m \in FinalizePrepared(broker[b].rec, Lease(b), broker[b].obs) :
              SendMutation(b, m)
      BY <1>9, Zenon DEF Finalize
    <2>3. LegalMutation(m)
      BY <1>1, <2>1, <2>2, LeaseType, FinalizeLegal, Zenon DEF BrokerKnowledge
    <2>4. QED
      BY <2>2, <2>3, SendStep, Zenon
  <1>10. CASE ReconcileWrite(b)
    BY <1>10, ReconcileStep, Zenon
  <1>11. QED
    BY <1>2, <1>3, <1>4, <1>5, <1>6, <1>7, <1>8, <1>9, <1>10, Zenon DEF RuntimeStep

\* What a broker does for a caller: exposing, preparing and privileged changes.
LEMMA ClientKeepsInv ==
    ASSUME JournalInv, NEW b \in Brokers, ClientStep(b)
    PROVE  JournalInv'
  <1>1. TypeOK /\ broker[b] \in BrokerState /\ BrokerKnowledge(broker[b])
    BY Zenon DEF JournalInv, TypeOK
  <1>2. Lease(b) \in [binding : Bindings, token : Nat]
    BY <1>1, LeaseType, Zenon
  <1>3. CASE Expose(b)
    <2> DEFINE i == broker[b].obs
               e == [token |-> broker[b].jtok, identity |-> i]
    <2>1. i \in settled /\ settled \subseteq StateIdentity
      BY <1>1, <1>3, Zenon DEF Expose, BrokerKnowledge, TypeOK
    <2>2. e \in [token : Nat, identity : StateIdentity] /\ e.identity = i
      BY <1>1, <2>1, Zenon DEF BrokerState
    <2>3. exposed' = exposed \union {e}
      BY <1>3, Zenon DEF Expose
    <2> HIDE DEF e, i
    <2>4. TypeOK'
      BY <1>1, <1>3, <2>2, <2>3, Zenon DEF Expose, TypeOK, storeVars, leaseVars, faultVars
    <2>5. {f.identity : f \in exposed'} \subseteq settled'
      BY <1>3, <2>1, <2>2, <2>3, Zenon DEF Expose, storeVars, JournalInv
    <2>6. QED
      BY <1>3, <2>4, <2>5, Zenon DEF Expose, storeVars, JournalInv, SettledHistory,
          UniqueRevisions, BrokerKnowledge
  <1>4. CASE Prepare(b)
    <2>1. PICK image \in Images :
            \E m \in PrepareTransition(broker[b].rec, Lease(b), broker[b].obs, image) :
                SendMutation(b, m)
      BY <1>4, Zenon DEF Prepare
    <2>2. PICK m \in PrepareTransition(broker[b].rec, Lease(b), broker[b].obs, image) :
              SendMutation(b, m)
      BY <2>1, Zenon
    <2>3. image \in SnapshotImage
      BY BrokerAssumption DEF Images, SnapshotImage, StateIdentity
    <2>4. LegalMutation(m)
      BY <1>1, <1>2, <1>4, <2>2, <2>3, PrepareLegal, Zenon DEF BrokerKnowledge, Prepare
    <2>5. QED
      BY <2>2, <2>4, SendStep, Zenon
  <1>5. CASE Provision(b)
    <2>1. PICK m \in PrivilegedProvision(BindingOf[b], Lease(b)) : SendMutation(b, m)
      BY <1>5, Zenon DEF Provision
    <2>2. LegalMutation(m)
      BY <1>2, <2>1, ProvisionLegal, BrokerAssumption, Zenon
    <2>3. QED
      BY <2>1, <2>2, SendStep, Zenon
  <1>6. CASE Enroll(b)
    <2>1. PICK seal \in Seals :
            \E m \in PrivilegedEnroll(broker[b].rec, Lease(b), broker[b].obs,
                                      [identity |-> broker[b].obs, seal |-> seal]) :
                SendMutation(b, m)
      BY <1>6, Zenon DEF Enroll
    <2> DEFINE image == [identity |-> broker[b].obs, seal |-> seal]
    <2>2. image \in SnapshotImage
      BY <1>1, <1>6, Zenon DEF Enroll, SnapshotImage, BrokerState, DatabaseObservation
    <2> HIDE DEF image
    <2>3. PICK m \in PrivilegedEnroll(broker[b].rec, Lease(b), broker[b].obs, image) :
              SendMutation(b, m)
      BY <2>1, Zenon DEF image
    <2>4. LegalMutation(m)
      BY <1>1, <1>2, <1>6, <2>2, <2>3, EnrollLegal, Zenon DEF BrokerKnowledge, Enroll
    <2>5. QED
      BY <2>3, <2>4, SendStep, Zenon
  <1>7. CASE Retire(b)
    <2>1. PICK m \in PrivilegedRetire(broker[b].rec, Lease(b), broker[b].obs) :
              SendMutation(b, m)
      BY <1>7, Zenon DEF Retire
    <2>2. LegalMutation(m)
      BY <1>1, <1>2, <1>7, <2>1, RetireLegal, Zenon DEF BrokerKnowledge, Retire
    <2>3. QED
      BY <2>1, <2>2, SendStep, Zenon
  <1>8. CASE StopFailClosed(b)
    <2> DEFINE s == [broker[b] EXCEPT !.pc = "failed"]
    <2>1. s \in BrokerState /\ BrokerKnowledge(s)
      BY <1>1 DEF BrokerState, BrokerKnowledge, Phases
    <2>2. broker' = [broker EXCEPT ![b] = s]
      BY <1>1, <1>8, Zenon DEF StopFailClosed, TypeOK
    <2> HIDE DEF s
    <2>3. QED
      BY <1>1, <1>8, <2>1, <2>2, LocalStep, Zenon DEF StopFailClosed, TypeOK, faultVars, leaseVars
  <1>9. QED
    BY <1>3, <1>4, <1>5, <1>6, <1>7, <1>8, Zenon DEF ClientStep

\* What the stores and the faults do: late writes, crashes, losses, rollbacks.
LEMMA StoresAndFaultsKeepInv ==
    ASSUME JournalInv, JournalStep \/ DatabaseStep \/ FaultStep \/ UNCHANGED vars
    PROVE  JournalInv'
  <1>1. TypeOK
    BY Zenon DEF JournalInv
  <1>2. CASE JournalStep
    BY <1>2, ApplyStep, Zenon DEF JournalStep
  <1>3. CASE DatabaseStep
    <2>1. PICK w \in dsent : ApplyDatabaseWrite(w)
      BY <1>3, Zenon DEF DatabaseStep
    <2>2. w.new \in StateIdentity
      BY <1>1, Zenon DEF TypeOK, DatabaseWrite
    <2>3. TypeOK'
      BY <1>1, <2>1, <2>2, Zenon DEF TypeOK, ApplyDatabaseWrite, DatabaseObservation, leaseVars,
          faultVars
    <2>4. QED
      BY <2>1, <2>3, QuietStep, Zenon DEF ApplyDatabaseWrite, JournalInv, BrokerKnowledge
  <1>4. ASSUME NEW b \in Brokers, Crash(b)
        PROVE  JournalInv'
    <2>1. /\ UNCHANGED <<storeVars, exposed, foreign>>
          /\ jfence' \in Nat /\ dfence' \in Nat
          /\ jholder' \in Brokers \union {NoBroker}
      BY <1>1, <1>4, Zenon DEF Crash, TypeOK
    <2>2. faults' \in Nat
      BY <1>1, <1>4 DEF Crash, Fault, TypeOK
    <2>3. broker' = [broker EXCEPT ![b] = IdleBroker]
      BY <1>4, Zenon DEF Crash
    <2>4. QED
      BY <2>1, <2>2, <2>3, IdleKnowledge, LocalStep, Zenon
  <1>5. CASE ExpireLease \/ RollBackDatabase \/ LoseJournalWrite \/ LoseDatabaseWrite
             \/ ForeignWrite \/ UNCHANGED vars
    <2>1. /\ UNCHANGED <<record, settled, exposed, broker>>
          /\ jsent' \subseteq jsent
      BY <1>5, Zenon DEF ExpireLease, RollBackDatabase, LoseJournalWrite, LoseDatabaseWrite,
          ForeignWrite, vars, storeVars
    <2>2. TypeOK'
      <3>1. CASE RollBackDatabase
        BY <1>1, <3>1 DEF RollBackDatabase, Fault, TypeOK, DatabaseObservation, leaseVars
      <3>2. CASE ForeignWrite
        <4>1. PICK image \in Images :
                  db' = image.identity /\ past' = past \union {image.identity}
          BY <3>2, Zenon DEF ForeignWrite
        <4>2. image.identity \in StateIdentity
          BY BrokerAssumption DEF Images, StateIdentity
        <4>3. QED
          BY <1>1, <3>2, <4>1, <4>2 DEF ForeignWrite, TypeOK, DatabaseObservation, leaseVars
      <3>3. CASE ExpireLease \/ LoseJournalWrite \/ LoseDatabaseWrite
        BY <1>1, <3>3 DEF ExpireLease, LoseJournalWrite, LoseDatabaseWrite, Fault, TypeOK,
            storeVars, leaseVars
      <3>4. CASE UNCHANGED vars
        BY <1>1, <3>4, Zenon DEF vars, storeVars, leaseVars, faultVars, TypeOK
      <3>5. QED
        BY <1>5, <3>1, <3>2, <3>3, <3>4, Zenon
    <2>3. QED
      BY <2>1, <2>2, QuietStep, Zenon DEF JournalInv, BrokerKnowledge
  <1>6. QED
    BY <1>2, <1>3, <1>4, <1>5, Zenon DEF FaultStep

-----------------------------------------------------------------------------
\* The theorems.

\* The invariant holds before any broker has started.
LEMMA InitEstablishesInv == Init => JournalInv
  <1> SUFFICES ASSUME Init PROVE JournalInv
    OBVIOUS
  <1>1. TypeOK
    BY IdleKnowledge, BrokerAssumption, Zenon DEF Init, TypeOK, DatabaseObservation
  <1>2. \A b \in Brokers : BrokerKnowledge(broker[b])
    BY IdleKnowledge, Zenon DEF Init
  <1>3. QED
    BY <1>1, <1>2, Zenon DEF Init, JournalInv, SettledHistory, UniqueRevisions

\* The invariant is inductive.
LEMMA NextKeepsInv == JournalInv /\ [Next]_vars => JournalInv'
  BY RuntimeKeepsInv, ClientKeepsInv, StoresAndFaultsKeepInv, Zenon DEF Next

\* The invariant holds in every reachable state, whatever the constants.
THEOREM InvariantHolds == Spec => []JournalInv
  BY InitEstablishesInv, NextKeepsInv, PTL DEF Spec

\* For any constants, every record stored, sent or seen is valid (validate), has
\* the images of its variant and a revision that fits u64, although validate
\* runs only on the record an operation proposes.
THEOREM TypeCorrect == Spec => []TypeOK
  <1>1. JournalInv => TypeOK
    BY Zenon DEF JournalInv
  <1>2. QED
    BY <1>1, InvariantHolds, PTL

\* Callers only see states the journal made Stable, and no two of those share
\* a revision, for any number of brokers, faults and foreign writes.
THEOREM NoForkTheorem == Spec => []NoForkedResult
  <1>1. JournalInv => NoForkedResult
    BY Zenon DEF JournalInv, NoForkedResult, UniqueRevisions
  <1>2. QED
    BY <1>1, InvariantHolds, PTL

\* What a stored write does to a record that is there.
LEMMA StoredStepFacts ==
    ASSUME JournalInv, [Next]_vars, record' # record
    PROVE  \E m \in jsent : LegalMutation(m) /\ m.prior = record /\ record' = m.proposed
                            /\ settled' = settled \union NewlySettled(m.proposed)
                            /\ UNCHANGED exposed
  <1>1. ASSUME NEW m \in jsent, ApplyJournalWrite(m)
        PROVE  LegalMutation(m) /\ m.prior = record /\ record' = m.proposed
               /\ settled' = settled \union NewlySettled(m.proposed) /\ UNCHANGED exposed
    BY <1>1, Zenon DEF ApplyJournalWrite, Matches, JournalInv
  <1>2. ASSUME NEW b \in Brokers, RuntimeStep(b)
        PROVE  record' = record
    BY <1>2, Zenon DEF RuntimeStep, AcquireJournalLease, AcquireDatabaseLease, NoticeLeaseLost,
        LoadRecord, ObserveDatabase, BecomeReady, WriteDatabase, Finalize, ReconcileWrite,
        SendMutation, storeVars
  <1>3. ASSUME NEW b \in Brokers, ClientStep(b)
        PROVE  record' = record
    BY <1>3, Zenon DEF ClientStep, Expose, Prepare, Provision, Enroll, Retire, StopFailClosed,
        SendMutation, storeVars
  <1>4. ASSUME DatabaseStep \/ FaultStep \/ UNCHANGED vars
        PROVE  record' = record
    BY <1>4, Zenon DEF DatabaseStep, ApplyDatabaseWrite, FaultStep, Crash, ExpireLease,
        RollBackDatabase, LoseJournalWrite, LoseDatabaseWrite, ForeignWrite, vars, storeVars
  <1>5. QED
    BY <1>1, <1>2, <1>3, <1>4, Zenon DEF Next, JournalStep

\* A stored record is only ever replaced by its successor: same binding, next
\* revision, never after retirement, and a prepared transition is never aborted.
THEOREM JournalAdvances == Spec => JournalOnlyAdvances
  <1> DEFINE Step ==
        record # NoRecord /\ record' # record =>
            /\ record' # NoRecord
            /\ record'.binding = record.binding
            /\ record'.revision = record.revision + 1
            /\ record.state.kind # "Retired"
            /\ record.state.kind = "Prepared" => record'.state = Stable(record.state.new)
  <1>1. JournalInv /\ [Next]_vars => Step
    <2> SUFFICES ASSUME JournalInv, [Next]_vars, record # NoRecord, record' # record
                 PROVE  Step
      OBVIOUS
    <2>1. PICK m \in jsent : LegalMutation(m) /\ m.prior = record /\ record' = m.proposed
      BY StoredStepFacts, Zenon
    <2>2. record' # NoRecord
      BY <2>1, SentinelsDistinct, Zenon DEF LegalMutation, GoodRecord
    <2>3. QED
      BY <2>1, <2>2, Zenon DEF LegalMutation
  <1>2. QED
    BY <1>1, InvariantHolds, PTL DEF Spec, JournalOnlyAdvances

\* A prepared transition always has a revision left to finalize it with.
THEOREM FinalizableTheorem == Spec => []PreparedIsFinalizable
  <1>1. JournalInv => PreparedIsFinalizable
    <2> SUFFICES ASSUME JournalInv, record # NoRecord, record.state.kind = "Prepared"
                 PROVE  /\ record.revision < MaxRevision
                        /\ FinalizePrepared(record, LeaseContext(record.binding, jfence),
                                            record.state.new.identity) # {}
      BY Zenon DEF PreparedIsFinalizable
    <2>1. record.revision \in Nat /\ record.revision % 2 = 0
          /\ record.revision <= MaxRevision
      <3>1. record.revision \in 0..MaxRevision /\ record.revision % 2 = 0
        BY Zenon DEF JournalInv, GoodRecord, Validate
      <3>2. QED
        BY <3>1, MaxRevisionOdd
    <2>2. record.revision < MaxRevision /\ (record.revision + 1) % 2 = 1
      BY <2>1, MaxRevisionOdd
    <2> DEFINE p == [binding |-> record.binding, revision |-> record.revision + 1,
                     state |-> Stable(record.state.new)]
               lease == LeaseContext(record.binding, jfence)
    <2>3. Validate(p)
      BY <2>2, Zenon DEF Validate, Stable, State
    <2>4. NextMutation(record, lease, Stable(record.state.new)) # {}
      <3>1. record.revision + 1 <= MaxRevision
        BY <2>1, <2>2, MaxRevisionOdd
      <3>2. NextMutation(record, lease, Stable(record.state.new))
              = {[binding |-> record.binding, token |-> lease.token,
                  prior |-> record, proposed |-> p]}
        BY <2>3, <3>1, Zenon DEF NextMutation
      <3>3. QED
        BY <3>2, Zenon
    <2>5. FinalizePrepared(record, lease, record.state.new.identity)
            = NextMutation(record, lease, Stable(record.state.new))
      BY Zenon DEF FinalizePrepared, EnsureLeaseBinding, LeaseContext
    <2>6. QED
      BY <2>2, <2>4, <2>5, Zenon
  <1>2. QED
    BY <1>1, InvariantHolds, PTL

\* A step that leaves the stored record alone leaves its history alone, and can
\* at most hand out a settled result.
LEMMA UnstoredStepFacts ==
    ASSUME JournalInv, [Next]_vars, record' = record
    PROVE  /\ settled' = settled
           /\ \/ UNCHANGED exposed
              \/ \E e : exposed' = exposed \union {e} /\ e.identity \in settled
  <1>1. ASSUME NEW m \in jsent, ApplyJournalWrite(m)
        PROVE  FALSE
    <2>1. LegalMutation(m) /\ m.prior = record /\ record' = m.proposed
      BY <1>1, Zenon DEF ApplyJournalWrite, Matches, JournalInv
    <2>2. record # NoRecord => record.revision \in Nat
      <3>1. record # NoRecord => record.revision \in 0..MaxRevision
        BY Zenon DEF JournalInv, GoodRecord
      <3>2. QED
        BY <3>1, MaxRevisionOdd
    <2>3. record' # NoRecord
      BY <2>1, SentinelsDistinct, Zenon DEF LegalMutation, GoodRecord
    <2>4. QED
      BY <2>1, <2>2, <2>3 DEF LegalMutation
  <1>2. ASSUME NEW b \in Brokers, Expose(b)
        PROVE  settled' = settled /\ \E e : exposed' = exposed \union {e} /\ e.identity \in settled
    <2> DEFINE e == [token |-> broker[b].jtok, identity |-> broker[b].obs]
    <2>1. exposed' = exposed \union {e} /\ e.identity \in settled /\ settled' = settled
      BY <1>2, Zenon DEF Expose, storeVars, JournalInv, BrokerKnowledge
    <2>2. QED
      BY <2>1, Zenon
  <1>3. ASSUME NEW b \in Brokers, RuntimeStep(b)
        PROVE  UNCHANGED <<settled, exposed>>
    BY <1>3, Zenon DEF RuntimeStep, AcquireJournalLease, AcquireDatabaseLease, NoticeLeaseLost,
        LoadRecord, ObserveDatabase, BecomeReady, WriteDatabase, Finalize, ReconcileWrite,
        SendMutation, storeVars
  <1>4. ASSUME NEW b \in Brokers, Prepare(b) \/ Provision(b) \/ Enroll(b) \/ Retire(b)
                                  \/ StopFailClosed(b)
        PROVE  UNCHANGED <<settled, exposed>>
    BY <1>4, Zenon DEF Prepare, Provision, Enroll, Retire, StopFailClosed, SendMutation, storeVars
  <1>5. ASSUME DatabaseStep \/ FaultStep \/ UNCHANGED vars
        PROVE  UNCHANGED <<settled, exposed>>
    BY <1>5, Zenon DEF DatabaseStep, ApplyDatabaseWrite, FaultStep, Crash, ExpireLease,
        RollBackDatabase, LoseJournalWrite, LoseDatabaseWrite, ForeignWrite, vars, storeVars
  <1>6. QED
    BY <1>1, <1>2, <1>3, <1>4, <1>5, Zenon DEF Next, JournalStep, ClientStep

-----------------------------------------------------------------------------
\* Refinement of the register.

\* What the refinement mapping reads off a stored record.
LEMMA PhaseFacts ==
    ASSUME record # NoRecord => GoodRecord(record)
    PROVE  /\ record = NoRecord => RegisterPhase = "absent" /\ RegisterValue = Absent
           /\ record # NoRecord =>
                /\ record.state.kind \in Kinds
                /\ record.state.kind = "NeverInitialized" =>
                      RegisterPhase = "marker" /\ RegisterValue = Absent
                /\ record.state.kind \in {"Stable", "Prepared"} =>
                      /\ RegisterPhase = "live"
                      /\ RegisterValue = record.state.current.identity
                /\ record.state.kind = "Retired" =>
                      /\ RegisterPhase = "retired"
                      /\ RegisterValue = record.state.current.identity
  <1>1. record # NoRecord => record.state.kind \in Kinds
    BY Zenon DEF GoodRecord
  <1>2. QED
    BY <1>1, Zenon DEF RegisterPhase, RegisterValue, Kinds

\* An empty journal is an empty register.
LEMMA InitRefines == Init => Register!RegisterInit
  BY Zenon DEF Init, Register!RegisterInit, RegisterPhase, RegisterValue

\* Every step of the brokers, stores and faults is a register step or none.
LEMMA StepRefines ==
    ASSUME JournalInv, JournalInv', [Next]_vars
    PROVE  [Register!RegisterNext]_(Register!registerVars)
  <1>1. (record # NoRecord => GoodRecord(record)) /\ (record' # NoRecord => GoodRecord(record'))
    BY Zenon DEF JournalInv
  <1>2. /\ record = NoRecord => RegisterPhase = "absent" /\ RegisterValue = Absent
        /\ record # NoRecord =>
             /\ record.state.kind \in Kinds
             /\ record.state.kind = "NeverInitialized" =>
                   RegisterPhase = "marker" /\ RegisterValue = Absent
             /\ record.state.kind \in {"Stable", "Prepared"} =>
                   RegisterPhase = "live" /\ RegisterValue = record.state.current.identity
             /\ record.state.kind = "Retired" =>
                   RegisterPhase = "retired" /\ RegisterValue = record.state.current.identity
    BY <1>1, PhaseFacts, Zenon
  <1>3. record' # NoRecord =>
             /\ record'.state.kind = "NeverInitialized" =>
                   RegisterPhase' = "marker" /\ RegisterValue' = Absent
             /\ record'.state.kind \in {"Stable", "Prepared"} =>
                   RegisterPhase' = "live" /\ RegisterValue' = record'.state.current.identity
             /\ record'.state.kind = "Retired" =>
                   RegisterPhase' = "retired" /\ RegisterValue' = record'.state.current.identity
    BY <1>1, Zenon DEF RegisterPhase, RegisterValue
  <1>4. CASE record' = record
    <2>1. RegisterPhase' = RegisterPhase /\ RegisterValue' = RegisterValue
      BY <1>4 DEF RegisterPhase, RegisterValue
    <2>2. settled' = settled
      BY <1>4, UnstoredStepFacts, Zenon
    <2>3. CASE UNCHANGED exposed
      BY <2>1, <2>2, <2>3, Zenon DEF Register!registerVars
    <2>4. ASSUME NEW e, exposed' = exposed \union {e}, e.identity \in settled
          PROVE  Register!Deliver
      BY <2>1, <2>2, <2>4, Zenon DEF Register!Deliver
    <2>5. QED
      BY <1>4, <2>3, <2>4, UnstoredStepFacts, Zenon DEF Register!RegisterNext
  <1>5. CASE record' # record
    <2>1. PICK m \in jsent : LegalMutation(m) /\ m.prior = record /\ record' = m.proposed
                            /\ settled' = settled \union NewlySettled(m.proposed)
                            /\ UNCHANGED exposed
      BY <1>5, StoredStepFacts, Zenon
    <2>2. GoodRecord(record') /\ record' # NoRecord
      BY <2>1, SentinelsDistinct, Zenon DEF LegalMutation, GoodRecord
    <2>3. CASE record = NoRecord
      <3>1. record'.state.kind = "NeverInitialized" /\ settled' = settled
        BY <2>1, <2>3, Zenon DEF LegalMutation, NewlySettled
      <3>2. Register!Create
        BY <1>2, <1>3, <2>1, <2>2, <2>3, <3>1, Zenon DEF Register!Create
      <3>3. QED
        BY <3>2, Zenon DEF Register!RegisterNext
    <2>4. CASE record # NoRecord /\ record.state.kind = "NeverInitialized"
      <3>1. record'.state.kind = "Stable" /\ settled = {}
        BY <2>1, <2>4, Zenon DEF LegalMutation, JournalInv, SettledHistory
      <3>2. settled' = {record'.state.current.identity}
            /\ record'.state.current.identity \in StateIdentity
        BY <2>1, <2>2, <3>1, Zenon DEF NewlySettled, GoodRecord, SnapshotImage
      <3>3. Register!Activate
        BY <1>2, <1>3, <2>1, <2>2, <2>4, <3>1, <3>2, Zenon DEF Register!Activate
      <3>4. QED
        BY <3>3, Zenon DEF Register!RegisterNext
    <2>5. CASE record # NoRecord /\ record.state.kind = "Stable"
      <3>1. /\ record'.state.kind \in {"Prepared", "Retired"} /\ settled' = settled
            /\ record'.state.current.identity = record.state.current.identity
        BY <2>1, <2>5, Zenon DEF LegalMutation, NewlySettled
      <3>2. CASE record'.state.kind = "Prepared"
        BY <1>2, <1>3, <2>1, <2>2, <2>5, <3>1, <3>2, Zenon DEF Register!registerVars
      <3>3. CASE record'.state.kind = "Retired"
        <4>1. Register!Close
          BY <1>2, <1>3, <2>1, <2>2, <2>5, <3>1, <3>3, Zenon DEF Register!Close
        <4>2. QED
          BY <4>1, Zenon DEF Register!RegisterNext
      <3>4. QED
        BY <3>1, <3>2, <3>3, Zenon
    <2>6. CASE record # NoRecord /\ record.state.kind = "Prepared"
      <3>1. record'.state.kind = "Stable" /\ record'.state.current = record.state.new
        BY <2>1, <2>6 DEF LegalMutation, Stable, State
      <3>2. /\ record.state.new.identity \in StateIdentity
            /\ record.state.new.identity.revision > record.state.current.identity.revision
        BY <1>1, <2>6, Zenon DEF GoodRecord, SnapshotImage, Validate
      <3>3. settled' = settled \union {record.state.new.identity}
        BY <2>1, <3>1, Zenon DEF NewlySettled
      <3>4. Register!Advance
        BY <1>2, <1>3, <2>1, <2>2, <2>6, <3>1, <3>2, <3>3, Zenon DEF Register!Advance
      <3>5. QED
        BY <3>4, Zenon DEF Register!RegisterNext
    <2>7. record # NoRecord => record.state.kind # "Retired"
      BY <2>1, Zenon DEF LegalMutation
    <2>8. QED
      BY <1>2, <2>3, <2>4, <2>5, <2>6, <2>7, Zenon DEF Kinds
  <1>6. QED
    BY <1>4, <1>5, Zenon

\* The brokers implement the register that only moves forward: every crash,
\* retry, duplicated write and rollback is invisible to a caller.
THEOREM RefinesRegister == Spec => ImplementsRegister
  <1>1. JournalInv /\ JournalInv' /\ [Next]_vars
            => [Register!RegisterNext]_(Register!registerVars)
    BY StepRefines
  <1>2. QED
    BY <1>1, InitRefines, InvariantHolds, PTL
        DEF Spec, ImplementsRegister, Register!RegisterSpec
=============================================================================
