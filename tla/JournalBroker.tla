---------------------------- MODULE JournalBroker ----------------------------
(***************************************************************************)
(* Brokers that protect one database with one external journal record,     *)
(* calling the operations of RollbackJournal in the order                  *)
(* docs/rollback-journal.md gives: journal lease, database lease, reread   *)
(* both, Prepared, database CAS, reread, Stable, and only then a result.   *)
(* The broker, the two leases and the two fenced stores are supplied by an *)
(* embedding (external); what they do here is what the crate's types and   *)
(* comments require of them.                                               *)
(*                                                                         *)
(* A write is a message: it can be delayed past a timeout, past a crash or *)
(* past the loss of its lease, delivered twice, or lost.  Brokers crash    *)
(* and leases expire unnoticed.  The database volume can be rolled back to *)
(* anything it ever held, wiped, or (ForeignWrite) written by a process    *)
(* that ignores the journal.                                               *)
(***************************************************************************)
EXTENDS RollbackJournal, FiniteSets

CONSTANTS
    Brokers,
    BindingOf,            \* the binding each broker was configured with
    NoBroker,
    NoMutation,
    FirstState,           \* what the database holds before it is enrolled
    MaxProtocolRevision,  \* bound on the revisions a transition may propose
    MaxFaults,            \* bound on crashes, expiries, rollbacks and losses
    MaxForeign            \* bound on writes that bypass the journal

ASSUME BrokerAssumption ==
    /\ BindingOf \in [Brokers -> Bindings]
    /\ NoBroker \notin Brokers
    /\ NoMutation \notin JournalMutation
    /\ FirstState \in StateIdentity
    /\ MaxProtocolRevision \in Nat
    /\ MaxFaults \in Nat
    /\ MaxForeign \in Nat

VARIABLES
    record,      \* the record the journal backend holds, or NoRecord
    jfence,      \* the last fencing token issued for the journal lease
    jholder,     \* the broker the journal lease is granted to, or NoBroker
    jsent,       \* journal writes in flight or already delivered
    db,          \* the exact content of the protected database
    dfence,      \* the last fencing token issued for the database lease
    dsent,       \* database writes in flight or already delivered
    broker,      \* the volatile state of each broker
    past,        \* every content the database volume has had
    settled,     \* history: identities that were ever durably Stable
    exposed,     \* history: results handed to callers, with their fence tag
    faults, foreign

storeVars == <<record, jsent, db, dsent, past, settled>>
leaseVars == <<jfence, jholder, dfence>>
faultVars == <<faults, foreign>>
vars == <<storeVars, leaseVars, faultVars, broker, exposed>>

-----------------------------------------------------------------------------
Phases == {"idle", "journal", "reread", "observe", "plan", "ready",
           "journalWait", "failed"}

BrokerState == [pc    : Phases,
                jtok  : Nat,
                dtok  : Nat,
                rec   : JournalRecord \union {NoRecord},
                obs   : DatabaseObservation,
                mut   : JournalMutation \union {NoMutation}]

DatabaseWrite == [expected : DatabaseObservation, new : StateIdentity, token : Nat]

\* What a broker knows before it holds a lease; a crash brings it back here.
IdleBroker == [pc |-> "idle", jtok |-> 0, dtok |-> 0, rec |-> NoRecord,
               obs |-> Absent, mut |-> NoMutation]

Images == [identity : [revision : 1..MaxProtocolRevision, fingerprint : Fingerprints],
           seal : Seals]

Lease(b) == LeaseContext(BindingOf[b], broker[b].jtok)

\* The stored record, every write in flight (its prior and its proposed record)
\* and every broker's view is a record that decode would accept: the images its
\* variant carries, the revision parity and order of JournalRecord::validate,
\* and a revision that fits u64, though no operation validates its prior again.
TypeOK ==
    /\ record \in JournalRecord \union {NoRecord}
    /\ jfence \in Nat
    /\ jholder \in Brokers \union {NoBroker}
    /\ jsent \subseteq JournalMutation
    /\ db \in DatabaseObservation
    /\ dfence \in Nat
    /\ dsent \subseteq DatabaseWrite
    /\ broker \in [Brokers -> BrokerState]
    /\ past \subseteq StateIdentity
    /\ settled \subseteq StateIdentity
    /\ exposed \subseteq [token : Nat, identity : StateIdentity]
    /\ faults \in Nat
    /\ foreign \in Nat

Init ==
    /\ record = NoRecord
    /\ jfence = 0
    /\ jholder = NoBroker
    /\ jsent = {}
    /\ db = FirstState
    /\ dfence = 0
    /\ dsent = {}
    /\ broker = [b \in Brokers |-> IdleBroker]
    /\ past = {FirstState}
    /\ settled = {}
    /\ exposed = {}
    /\ faults = 0
    /\ foreign = 0

-----------------------------------------------------------------------------
\* Leases.  A grant issues a fresh token; the former holder is not told.

AcquireJournalLease(b) ==
    /\ broker[b].pc = "idle"
    /\ jholder = NoBroker
    /\ jfence' = jfence + 1
    /\ jholder' = b
    /\ broker' = [broker EXCEPT ![b].pc = "journal", ![b].jtok = jfence + 1]
    /\ UNCHANGED <<storeVars, faultVars, dfence, exposed>>

AcquireDatabaseLease(b) ==
    /\ broker[b].pc = "journal"
    /\ dfence' = dfence + 1
    /\ broker' = [broker EXCEPT ![b].pc = "reread", ![b].dtok = dfence + 1]
    /\ UNCHANGED <<storeVars, faultVars, jfence, jholder, exposed>>

\* A broker that finds one of its leases fenced drops everything it knew and
\* the guards it holds.
NoticeLeaseLost(b) ==
    /\ broker[b].pc # "idle"
    /\ \/ broker[b].jtok # jfence
       \/ broker[b].pc # "journal" /\ broker[b].dtok # dfence
    /\ broker' = [broker EXCEPT ![b] = IdleBroker]
    /\ jholder' = IF jholder = b THEN NoBroker ELSE jholder
    /\ UNCHANGED <<storeVars, faultVars, jfence, dfence, exposed>>

-----------------------------------------------------------------------------
\* Reread both states under the leases: two reads, not one.

LoadRecord(b) ==
    /\ broker[b].pc = "reread"
    /\ broker[b].jtok = jfence
    /\ broker' = [broker EXCEPT ![b].pc = "observe", ![b].rec = record]
    /\ UNCHANGED <<storeVars, leaseVars, faultVars, exposed>>

ObserveDatabase(b) ==
    /\ broker[b].pc = "observe"
    /\ broker[b].dtok = dfence
    /\ broker' = [broker EXCEPT ![b].pc = "plan", ![b].obs = db]
    /\ UNCHANGED <<storeVars, leaseVars, faultVars, exposed>>

\* Hand one mutation to the journal backend and wait for its outcome.
SendMutation(b, m) ==
    /\ jsent' = jsent \union {m}
    /\ broker' = [broker EXCEPT ![b].pc = "journalWait", ![b].mut = m]
    /\ UNCHANGED <<record, db, dsent, past, settled, leaseVars, faultVars, exposed>>

-----------------------------------------------------------------------------
\* The runtime path: plan_recovery decides, the broker does what it says.

CurrentPlan(b) == PlanRecovery(BindingOf[b], broker[b].rec, broker[b].obs)

BecomeReady(b) ==
    /\ broker[b].pc = "plan"
    /\ CurrentPlan(b).action = "Ready"
    /\ broker' = [broker EXCEPT ![b].pc = "ready"]
    /\ UNCHANGED <<storeVars, leaseVars, faultVars, exposed>>

WriteDatabase(b) ==
    /\ broker[b].pc = "plan"
    /\ CurrentPlan(b).action \in RestorePlans
    /\ dsent' = dsent \union {[expected |-> broker[b].obs,
                               new      |-> CurrentPlan(b).image.identity,
                               token    |-> broker[b].dtok]}
    /\ broker' = [broker EXCEPT ![b].pc = "reread"]
    /\ UNCHANGED <<record, jsent, db, past, settled, leaseVars, faultVars, exposed>>

Finalize(b) ==
    /\ broker[b].pc = "plan"
    /\ CurrentPlan(b).action = "FinalizePrepared"
    /\ \E m \in FinalizePrepared(broker[b].rec, Lease(b), broker[b].obs) :
            SendMutation(b, m)

StopFailClosed(b) ==
    /\ broker[b].pc = "plan"
    /\ CurrentPlan(b).action \in FailClosedReasons
    /\ broker' = [broker EXCEPT ![b].pc = "failed"]
    /\ UNCHANGED <<storeVars, leaseVars, faultVars, exposed>>

\* A result is computed from the state read from the database, tagged with the
\* lease; only a Ready plan lets one out.
Expose(b) ==
    /\ broker[b].pc = "ready"
    /\ exposed' = exposed \union {[token |-> broker[b].jtok, identity |-> broker[b].obs]}
    /\ UNCHANGED <<storeVars, leaseVars, faultVars, broker>>

Prepare(b) ==
    /\ broker[b].pc = "ready"
    /\ \E image \in Images :
         \E m \in PrepareTransition(broker[b].rec, Lease(b), broker[b].obs, image) :
            SendMutation(b, m)

\* The privileged control plane: provisioning, enrolment and retirement.

Provision(b) ==
    /\ broker[b].pc = "plan"
    /\ broker[b].rec = NoRecord
    /\ \E m \in PrivilegedProvision(BindingOf[b], Lease(b)) : SendMutation(b, m)

Enroll(b) ==
    /\ broker[b].pc = "plan"
    /\ broker[b].rec # NoRecord
    /\ broker[b].obs # Absent
    /\ \E seal \in Seals :
         \E m \in PrivilegedEnroll(broker[b].rec, Lease(b), broker[b].obs,
                                   [identity |-> broker[b].obs, seal |-> seal]) :
            SendMutation(b, m)

Retire(b) ==
    /\ broker[b].pc = "ready"
    /\ \E m \in PrivilegedRetire(broker[b].rec, Lease(b), broker[b].obs) :
            SendMutation(b, m)

-----------------------------------------------------------------------------
\* The journal backend.  A write is stored only under the current token and
\* over the exact prior record; its answer may not come back.

AfterCommit(s) == [s EXCEPT !.pc = "plan", !.rec = s.mut.proposed, !.mut = NoMutation]

Awaits(b, m) == broker[b].pc = "journalWait" /\ broker[b].mut = m

NewlySettled(r) == IF r.state.kind = "Stable" THEN {r.state.current.identity} ELSE {}

ApplyJournalWrite(m) ==
    /\ m.token = jfence
    /\ Matches(m, record)
    /\ record' = m.proposed
    /\ settled' = settled \union NewlySettled(m.proposed)
    /\ \E answered \in BOOLEAN :
         broker' = [b \in Brokers |-> IF answered /\ Awaits(b, m)
                                      THEN AfterCommit(broker[b]) ELSE broker[b]]
    /\ UNCHANGED <<jsent, db, dsent, past, leaseVars, faultVars, exposed>>

\* No answer came: reload and reconcile.  An exact old record means the very
\* same mutation is sent again.
ReconcileWrite(b) ==
    /\ broker[b].pc = "journalWait"
    /\ LET m == broker[b].mut
           outcome == Reconcile(m, record)
       IN  /\ broker' = [broker EXCEPT ![b] =
                            CASE outcome = "Committed" -> AfterCommit(broker[b])
                              [] outcome = "RetryExact" -> broker[b]
                              [] outcome = "FailClosedConflict" ->
                                    [broker[b] EXCEPT !.pc = "failed"]]
           /\ jsent' = IF outcome = "RetryExact" THEN jsent \union {m} ELSE jsent
    /\ UNCHANGED <<record, db, dsent, past, settled, leaseVars, faultVars, exposed>>

\* The database: an exact compare-and-swap under the current database token.
ApplyDatabaseWrite(w) ==
    /\ w.token = dfence
    /\ w.expected = db
    /\ db' = w.new
    /\ past' = past \union {w.new}
    /\ UNCHANGED <<record, jsent, dsent, settled, leaseVars, faultVars, broker, exposed>>

-----------------------------------------------------------------------------
\* Faults.

Fault == faults < MaxFaults /\ faults' = faults + 1

Crash(b) ==
    /\ Fault
    /\ broker[b].pc # "idle"
    /\ broker' = [broker EXCEPT ![b] = IdleBroker]
    /\ jholder' = IF jholder = b THEN NoBroker ELSE jholder
    /\ UNCHANGED <<storeVars, jfence, dfence, foreign, exposed>>

\* The broker is not told that its journal lease can be granted to another.
ExpireLease ==
    /\ Fault
    /\ jholder # NoBroker
    /\ jholder' = NoBroker
    /\ UNCHANGED <<storeVars, jfence, dfence, foreign, broker, exposed>>

RollBackDatabase ==
    /\ Fault
    /\ \E old \in (past \union {Absent}) \ {db} : db' = old
    /\ UNCHANGED <<record, jsent, dsent, past, settled, leaseVars, foreign, broker, exposed>>

LoseJournalWrite ==
    /\ Fault
    /\ \E m \in jsent : jsent' = jsent \ {m}
    /\ UNCHANGED <<record, db, dsent, past, settled, leaseVars, foreign, broker, exposed>>

LoseDatabaseWrite ==
    /\ Fault
    /\ \E w \in dsent : dsent' = dsent \ {w}
    /\ UNCHANGED <<record, jsent, db, past, settled, leaseVars, foreign, broker, exposed>>

ForeignWrite ==
    /\ foreign < MaxForeign
    /\ foreign' = foreign + 1
    /\ \E image \in Images : /\ db' = image.identity
                             /\ past' = past \union {image.identity}
    /\ UNCHANGED <<record, jsent, dsent, settled, leaseVars, faults, broker, exposed>>

-----------------------------------------------------------------------------
RuntimeStep(b) ==
    \/ AcquireJournalLease(b)
    \/ AcquireDatabaseLease(b)
    \/ NoticeLeaseLost(b)
    \/ LoadRecord(b)
    \/ ObserveDatabase(b)
    \/ BecomeReady(b)
    \/ WriteDatabase(b)
    \/ Finalize(b)
    \/ ReconcileWrite(b)

ClientStep(b) ==
    \/ Expose(b)
    \/ Prepare(b)
    \/ Provision(b)
    \/ Enroll(b)
    \/ Retire(b)
    \/ StopFailClosed(b)

JournalStep == \E m \in jsent : ApplyJournalWrite(m)

DatabaseStep == \E w \in dsent : ApplyDatabaseWrite(w)

FaultStep ==
    \/ \E b \in Brokers : Crash(b)
    \/ ExpireLease
    \/ RollBackDatabase
    \/ LoseJournalWrite
    \/ LoseDatabaseWrite
    \/ ForeignWrite

Next ==
    \/ \E b \in Brokers : RuntimeStep(b)
    \/ \E b \in Brokers : ClientStep(b)
    \/ JournalStep
    \/ DatabaseStep
    \/ FaultStep

Spec == Init /\ [][Next]_vars

\* A live broker keeps running its recovery loop and the stores process the
\* writes they receive; transitions, retirement and faults are nobody's duty.
Fairness ==
    /\ \A b \in Brokers : WF_vars(RuntimeStep(b))
    /\ WF_vars(JournalStep)
    /\ WF_vars(DatabaseStep)

FairSpec == Spec /\ Fairness

-----------------------------------------------------------------------------
\* Properties.

Enrolled == record # NoRecord /\ record.state.kind \in {"Stable", "Prepared"}

\* No forked history: whatever crashes, rollbacks, foreign writes and late
\* writes happen, a caller only ever sees states the journal made Stable, and
\* no two of them share a protocol revision (prepare_transition advances the
\* revision and every write is a compare-and-swap on the exact prior record).
NoForkedResult ==
    /\ {e.identity : e \in exposed} \subseteq settled
    /\ \A i, j \in settled : i.revision = j.revision => i = j

\* Results ordered by their fence tag never go back: a result of a later
\* lease is at least as new as any result of an earlier one, even when the
\* earlier broker hands out its result late (fencing_token in the expectation).
ResultsFollowFences ==
    \A e, f \in exposed :
        e.token < f.token => e.identity.revision <= f.identity.revision

\* A broker whose journal token is current has an exact view: the record it
\* loaded or committed is the record stored.  Nobody changes it underneath,
\* not even its own delayed or duplicated earlier writes.
CurrentViewIsExact ==
    \A b \in Brokers :
        broker[b].pc \in {"observe", "plan", "ready"} /\ broker[b].jtok = jfence
            => broker[b].rec = record

\* Two brokers never both hold a prepared write that can still be stored: at
\* most one mutation in flight matches the record under the current token.
OneLiveMutation ==
    \A m, n \in jsent :
        /\ m.token = jfence /\ Matches(m, record)
        /\ n.token = jfence /\ Matches(n, record)
        => m = n

\* Without foreign writes the database is never ahead of the journal and never
\* forked from it: an enrolled database holds an older settled state, the
\* current one, or the prepared new one.
JournalCoversDatabase ==
    foreign = 0 /\ Enrolled /\ db # Absent =>
        \/ db = record.state.current.identity
        \/ db.revision < record.state.current.identity.revision
        \/ record.state.kind = "Prepared" /\ db = record.state.new.identity

\* Without foreign writes recovery never fails closed on an enrolled record:
\* crashes, lost and repeated writes and volume rollbacks always leave
\* recovery_plan a way forward.
NoSpuriousFailClosed ==
    foreign = 0 =>
        \A b \in Brokers :
            broker[b].pc = "plan" =>
                CurrentPlan(b).action \notin {"SameRevisionFork", "DatabaseAhead",
                                              "UnexpectedIntermediateState"}

\* A prepared transition can always be finalized: its new state is newer, and
\* there is a revision after its own.  Two things see to the second: the prepare
\* reserves it (checked_add(2)), and the greatest revision, u64::MAX, is odd.
PreparedIsFinalizable ==
    record # NoRecord /\ record.state.kind = "Prepared" =>
        /\ record.revision < MaxRevision
        /\ FinalizePrepared(record, LeaseContext(record.binding, jfence),
                            record.state.new.identity) # {}

\* A stored record is replaced only by its successor under the same binding;
\* a Retired record is never replaced; a Prepared one is never aborted.
JournalOnlyAdvances ==
    [][record # NoRecord /\ record' # record =>
        /\ record' # NoRecord
        /\ record'.binding = record.binding
        /\ record'.revision = record.revision + 1
        /\ record.state.kind # "Retired"
        /\ record.state.kind = "Prepared" =>
              record'.state = Stable(record.state.new)]_vars

\* A Prepared record does not stay: with a broker that keeps running, its
\* database CAS is retried and it becomes Stable.
PreparedSettles ==
    (record # NoRecord /\ record.state.kind = "Prepared")
        ~> (record # NoRecord /\ record.state.kind = "Stable")

\* No broker is past its reread: all of them are idle or have just (re)started.
Restarted == \A b \in Brokers : broker[b].pc \in {"idle", "journal", "reread", "observe"}

\* However the database was rolled back or wiped, once faults stop and the
\* brokers have restarted the recovery loop brings the database and the journal
\* back to one common current state.
RecoveryConverges ==
    (Enrolled /\ Restarted /\ faults = MaxFaults /\ foreign = 0)
        ~> /\ record # NoRecord
           /\ \/ record.state.kind = "Retired"
              \/ record.state.kind = "Stable" /\ db = record.state.current.identity

-----------------------------------------------------------------------------
\* What callers can tell of the journal.

RegisterPhase ==
    IF record = NoRecord THEN "absent"
    ELSE CASE record.state.kind = "NeverInitialized" -> "marker"
           [] record.state.kind \in {"Stable", "Prepared"} -> "live"
           [] record.state.kind = "Retired" -> "retired"

\* A prepared transition has not happened yet: the register still holds old.
RegisterValue ==
    IF RegisterPhase \in {"live", "retired"} THEN record.state.current.identity ELSE Absent

Register == INSTANCE AntiRollbackRegister WITH
    Values  <- StateIdentity,
    NoValue <- Absent,
    phase   <- RegisterPhase,
    value   <- RegisterValue,
    had     <- settled,
    results <- {e.identity : e \in exposed}

\* The brokers implement the register: the prepare, the database CAS, every
\* retry and every fault is invisible, and one stored finalization is the
\* advance (prepare_transition, finalize_prepared, reconcile).
ImplementsRegister == Register!RegisterSpec
=============================================================================
