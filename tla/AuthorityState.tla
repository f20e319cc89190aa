--------------------------- MODULE AuthorityState ---------------------------
(***************************************************************************)
(* NamedServiceAuthorityState of hns-service-authority: the aggregate one  *)
(* context keeps for a name, as operators on that state.  The durable      *)
(* format is canonical and its fingerprint is collision free, so encoded   *)
(* bytes and fingerprints are the snapshot itself.                         *)
(***************************************************************************)
EXTENDS NamedService, FiniteSets

CONSTANTS
    Capacity,       \* entries per snapshot
    MaxRevision,    \* stands for u64::MAX
    Absent          \* AuthorityPersistenceExpectation::Absent; an Exact
                    \* expectation is the snapshot it names

NoObservations == [s \in {} |-> NoVal]

Snapshot(revision, time, root, observations) ==
    [revision |-> revision, time |-> time, root |-> root,
     observations |-> observations]

State(snapshot, pending) == [snapshot |-> snapshot, pending |-> pending]

Result(state, outcome) == [state |-> state, outcome |-> outcome]

\* Has the service been seen at a root the aggregate is not at yet?
Ahead(observation, root) ==
    \/ observation.root.sequence > root.sequence
    \/ observation.root.point.work > root.point.work
    \/ /\ observation.root.sequence = root.sequence
       /\ observation.root.envelope # root.envelope

\* NamedServiceAuthoritySnapshot::validate
Validate(snapshot) ==
    LET seen == DOMAIN snapshot.observations
    IN  /\ snapshot.revision # MaxRevision
        /\ Cardinality(seen) <= snapshot.revision
        /\ Cardinality(seen) <= Capacity
        /\ snapshot.root = NoVal => seen = {}
        /\ snapshot.root # NoVal =>
              /\ snapshot.revision > 0
              /\ \A s \in seen : ~Ahead(snapshot.observations[s], snapshot.root)

\* encode and decode: the bytes of a snapshot stand for it, and decode to it
\* only if it passes validate.
Decode(bytes) == {snapshot \in {bytes} : Validate(snapshot)}

\* next_revision: the successors, none when exhausted.
NextRevision(revision) == {revision + 1} \ {MaxRevision}

\* NamedServiceAuthorityState::new
NewState(now) == State(Snapshot(0, now, NoVal, NoObservations), Absent)

\* NamedServiceAuthorityState::restore: the states it may return, none on an
\* error.  `floor` is the embedding's authenticated minimum revision.
RestoreState(durable, floor, now) ==
    IF Decode(durable) = {} \/ durable.revision < floor \/ now < durable.time
    THEN {}
    ELSE IF now = durable.time
    THEN {State(durable, NoVal)}
    ELSE {State([durable EXCEPT !.revision = r, !.time = now], durable) :
            r \in NextRevision(durable.revision)}

\* Mutant: the rollback floor is not compared.
ReconcileIgnoresFloor(state, loaded, floor) ==
    IF loaded = NoVal
    THEN {state.pending} \intersect {Absent}
    ELSE IF Decode(loaded) = {}
    THEN {}
    ELSE IF loaded = state.snapshot
    THEN {NoVal}
    ELSE {state.pending} \intersect {loaded}

\* reconcile_loaded: the pending expectation afterwards, none on an error.
\* `loaded` is NoVal or what the store holds.
ReconcileLoaded(state, loaded, floor) ==
    IF loaded = NoVal
    THEN {state.pending} \intersect {Absent}
    ELSE IF Decode(loaded) = {} \/ loaded.revision < floor
    THEN {}
    ELSE IF loaded = state.snapshot
    THEN {NoVal}
    ELSE {state.pending} \intersect {loaded}

\* prepare_transition
PrepareTransition(state, time, root, observations) ==
    LET old == state.snapshot
    IN  IF time = old.time /\ root = old.root /\ observations = old.observations
        THEN Result(state, "ok")
        ELSE IF NextRevision(old.revision) = {}
        THEN Result(state, "exhausted")
        ELSE LET candidate == Snapshot(old.revision + 1, time, root, observations)
             IN  IF Validate(candidate)
                 THEN Result(State(candidate, old), "ok")
                 ELSE Result(state, "invalid")

\* CommittedNamedService, once its revision is known.
Committed(revision, service, observed, now) ==
    [revision |-> revision, service |-> service,
     observation |-> observed.observation, cacheUntil |-> observed.cacheUntil,
     validatedAt |-> now]

\* Mutant: an accepted reorganization leaves the old observations in place.
ObserveKeepsObservations(state, manifest, service, now) ==
    LET old == state.snapshot
        kept == old.observations
        previous == IF service \in DOMAIN kept THEN kept[service] ELSE NoVal
        observed == ObserveNamedService(manifest, service, previous, now)
        prepared == PrepareTransition(state, now, manifest.root,
            [s \in DOMAIN kept \union {t \in {service} : observed # {}} |->
                IF s = service /\ observed # {}
                THEN (CHOOSE o \in observed : TRUE).observation
                ELSE kept[s]])
    IN  IF ~ValidateCurrentManifest(manifest, old.root, now)
        THEN [state |-> state, outcome |-> "refused", observed |-> {}]
        ELSE [state |-> prepared.state, outcome |-> prepared.outcome,
              observed |-> observed]

\* prepare_validate_and_observe: the state to persist, the outcome, and the
\* observation to release once it is persisted.
PrepareValidateAndObserve(state, manifest, service, now) ==
    LET old == state.snapshot
        root == manifest.root
        reorganization ==
            /\ old.root # NoVal
            /\ ActuallyRollsBack(old.root, root)
            /\ Matches(manifest.reorg, old.root, root)
        kept == IF reorganization THEN NoObservations ELSE old.observations
        previous == IF service \in DOMAIN kept THEN kept[service] ELSE NoVal
        observed ==
            {o \in ObserveNamedService(manifest, service, previous, now) :
                service \in DOMAIN kept \/ Cardinality(DOMAIN kept) < Capacity}
        observations ==
            [s \in DOMAIN kept \union {t \in {service} : observed # {}} |->
                IF s = service /\ observed # {}
                THEN (CHOOSE o \in observed : TRUE).observation
                ELSE kept[s]]
        prepared == PrepareTransition(state, now, root, observations)
    IN  IF ~ValidateCurrentManifest(manifest, old.root, now)
        THEN [state |-> PrepareTransition(state, now, old.root, old.observations).state,
              outcome |-> "refused", observed |-> {}]
        ELSE [state |-> prepared.state,
              outcome |-> IF prepared.outcome = "ok" /\ observed = {}
                          THEN "refused" ELSE prepared.outcome,
              observed |-> IF prepared.outcome = "ok" THEN observed ELSE {}]

\* Mutant: only the observation is compared, not its revision and time.
BindAnyRevision(state, committed, now) ==
    /\ committed.service \in DOMAIN state.snapshot.observations
    /\ state.snapshot.observations[committed.service] = committed.observation

\* bind_current_at, under a lease that is held
BindCurrentAt(state, committed, now) ==
    /\ state.pending = NoVal
    /\ committed.revision = state.snapshot.revision
    /\ committed.service \in DOMAIN state.snapshot.observations
    /\ state.snapshot.observations[committed.service] = committed.observation
    /\ now = state.snapshot.time
    /\ committed.cacheUntil # NoVal =>
          committed.validatedAt <= now /\ now < committed.cacheUntil
=============================================================================
