----------------------------- MODULE RouteNode ------------------------------
(***************************************************************************)
(* A route store in use: publishers put records of all three models,       *)
(* the node applies current service authority, looks routes up and         *)
(* restarts from a snapshot of its ledger.                                 *)
(*                                                                         *)
(* Every operation takes the time its caller supplies, any time of Times:  *)
(* the code accepts clocks that go backwards.  "observed" is a history     *)
(* variable: the genuine records the store decided for a scope, valid at   *)
(* the time they came, since the scope's ledger entry was created; one     *)
(* refused for capacity or rate was not looked at and is not among them.   *)
(***************************************************************************)
EXTENDS RouteStore

CONSTANTS
    Workloads,    \* what the store is given: [records, services, sources, limits]
    Times         \* the times operations run at

VARIABLES
    workload,     \* the workload of this behaviour
    store,        \* RouteStore
    observed      \* [scope -> set of records]

vars == <<workload, store, observed>>

Init ==
    /\ workload \in Workloads
    /\ store = EmptyStore(workload.limits)
    /\ observed = [scope \in {} |-> {}]

\* The history after a step to "next" at time "now" that decided "records".
Observing(next, now, records) ==
    [scope \in DOMAIN next.ledger |->
        (IF scope \notin DOMAIN observed
            \/ (next.pruned_through # store.pruned_through /\ scope \in Elapsed(store, now))
         THEN {} ELSE observed[scope])
        \cup {raw \in records : Scope(raw) = scope}]

Step(next, now, records) ==
    /\ store' = next
    /\ observed' = Observing(next, now, records)
    /\ UNCHANGED workload

\* A put that got as far as a verdict on the record's sequences.
Decided(result) == result \in {"stored", "stale_sequence", "conflicting_sequence"}

RecordsOf(model) == {raw \in workload.records : raw.model = model}

PutLegacyRoute ==
    \E raw \in RecordsOf("v1") \cup RecordsOf("v2"), now \in Times, source \in workload.sources :
        Step(PutLegacy(store, raw, now, source).store, now, {})

AdmitNamedV3 ==
    \E raw \in RecordsOf("v3"), now \in Times, source \in workload.sources :
        LET put == PutNamedV3ForAdmission(store, raw, now, source)
        IN  Step(put.store, now,
                 IF Decided(put.result) /\ VerifyAdmission(raw, now) THEN {raw} ELSE {})

PutCurrentNamedV3 ==
    \E raw \in RecordsOf("v3"), service \in workload.services,
       source \in workload.sources, held \in BOOLEAN :
       \E now \in {service.time, service.time + 1} :
        LET put == PutNamedV3Current(store, raw, service, now, source, TRUE)
            end == PutNamedV3Current(store, raw, service, now, source, held)
        IN  Step(end.store, now,
                 IF Decided(put.result) /\ VerifyCurrent(raw, service, now) THEN {raw} ELSE {})

RevalidateCurrent ==
    \E service \in workload.services, bound \in BOOLEAN, held \in BOOLEAN :
       \E now \in {service.time, service.time + 1} :
        Step(RevalidateNamedV3Current(store, service, now, bound, held).store, now, {})

InvalidateWithdrawal ==
    \E service \in workload.services, bound \in BOOLEAN, held \in BOOLEAN :
       \E now \in {service.time, service.time + 1} :
        Step(InvalidateNamedV3Withdrawal(store, service, now, bound, held).store, now, {})

Get ==
    \E model \in {"v1", "v2", "v3"}, key \in Keys, now \in Times :
        Step(GetModelStore(store, model, key, now), now, {})

SampleOrPrune ==
    \E now \in Times : Step(PruneAll(store, now), now, {})

PruneLedger ==
    \E now \in Times : Step(PruneNamedV3Ledger(store, now).store, now, {})

\* The embedding takes a named_v3_ledger_snapshot and starts a fresh store from
\* it at another time; live routes are gone.  A crash some operations after the
\* snapshot leaves the same state as a crash right after it.  A snapshot or a
\* restore that is refused leaves the node down, which is no state of a store.
Restart ==
    \E now \in Times, later \in Times :
        LET pruned   == PruneNamedV3Ledger(store, now)
            snapshot == SnapshotOf(pruned.store)
            restored == RestoreNamedV3Ledger(workload.limits, snapshot, later, snapshot.revision)
        IN  /\ pruned.result = "pruned"
            /\ restored.result = "restored"
            /\ store' = restored.store
            /\ observed' = [scope \in DOMAIN restored.store.ledger |-> observed[scope]]
            /\ UNCHANGED workload

Next ==
    \/ PutLegacyRoute
    \/ AdmitNamedV3
    \/ PutCurrentNamedV3
    \/ RevalidateCurrent
    \/ InvalidateWithdrawal
    \/ Get
    \/ SampleOrPrune
    \/ PruneLedger
    \/ Restart

Spec == Init /\ [][Next]_vars

-----------------------------------------------------------------------------

\* The counters the limits are checked against (size, source_counts,
\* named_v3_ledger_route_counts) count exactly the live routes and the ledger's
\* scopes, through replacements, expiry, lost leases and restarts, and no
\* operation takes the store over a limit.
CountersAreExact ==
    /\ store.size = Cardinality(store.live)
    /\ store.size <= store.limits.total_records
    /\ \A source \in Sources :
        /\ store.source_counts[source] = Cardinality({item \in store.live : item.source = source})
        /\ store.source_counts[source] <= store.limits.records_per_source
    /\ store.ledger_counts = CountScopes(store.ledger)
    /\ Cardinality(DOMAIN store.ledger) <= store.limits.total_records
    /\ \A key \in Keys :
        /\ store.ledger_counts[key] <= store.limits.records_per_key
        /\ \A model \in {"v1", "v2", "v3"} :
            Cardinality(At(store, model, key)) <= store.limits.records_per_key

\* A live version-3 route that a lookup may still serve is the one record its
\* ledger entry stands for: both counters at the record's sequences and
\* identifiers, neither conflicted.  The errors the code has for live state
\* that disagrees with the ledger are never reached.
LiveRealisesLedger ==
    \A item \in store.live :
        item.model = "v3" /\ item.expires > store.pruned_through =>
            LET entry == store.ledger[Scope(item.raw)] IN
            /\ Scope(item.raw) \in DOMAIN store.ledger
            /\ entry.endpoint = NewCounter(item.raw.endpoint_sequence, item.raw.delegation)
            /\ entry.route = NewCounter(item.raw.sequence, item.raw.hash)
            /\ entry.retain_until >= item.expires

\* Each counter of a ledger entry is the join of the genuine records decided
\* for its scope: greatest sequence, least identifier there, conflicted when
\* two identifiers were seen there.  It does not depend on their order, on
\* which of them were refused as stale or conflicting, or on what the other
\* counter did.
LedgerIsJoin ==
    \A scope \in DOMAIN store.ledger :
        /\ IsJoin(store.ledger[scope].endpoint,
                  {<<raw.endpoint_sequence, raw.delegation>> : raw \in observed[scope]})
        /\ IsJoin(store.ledger[scope].route,
                  {<<raw.sequence, raw.hash>> : raw \in observed[scope]})

\* What a restart keeps of a store.
Durable(s) == <<s.ledger, s.ledger_counts, s.revision, s.pruned_through>>

\* Restarting is pruning: the decoder accepts the snapshot of the ledger, and
\* restoring it at any time (restore_named_v3_ledger) ends as pruning the
\* running ledger at that time would (prune_named_v3_ledger), with the same
\* scopes, counts, revision and pruned_through.  A restore is refused exactly
\* where the running store refuses to go on: a clock behind pruned_through, or
\* an elapsed scope at the last revision.
RestartIsPruning ==
    LET snapshot == SnapshotOf(store) IN
    /\ SnapshotDecodes(snapshot)
    /\ \A now \in Times :
        LET pruned   == PruneNamedV3Ledger(store, now)
            restored == RestoreNamedV3Ledger(store.limits, snapshot, now, snapshot.revision)
        IN  IF pruned.result = "pruned"
            THEN restored.result = "restored" /\ Durable(restored.store) = Durable(pruned.store)
            ELSE restored.result = pruned.result
=============================================================================
