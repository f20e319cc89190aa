----------------------------- MODULE RouteStore -----------------------------
(***************************************************************************)
(* The volatile route store of a rendezvous node (routing.rs).             *)
(*                                                                         *)
(* A store is a record: the live routes of three record models that share  *)
(* the space of route keys, the version-3 replay ledger (RouteLedger), the *)
(* ledger's revision and the greatest time it was pruned at, the counters  *)
(* the limits are checked against, and the windows that limit signature    *)
(* verifications.  A method is an operator that returns the store it       *)
(* leaves and its result; an error keeps what was already changed.         *)
(*                                                                         *)
(* A raw record is [model, key, endpoint, endpoint_sequence, delegation,   *)
(* sequence, hash, generation, issued, expires, matches, genuine].         *)
(* "matches" says that the bytes decode to a record of the requested key   *)
(* and network, "genuine" that its signatures, tickets and bindings        *)
(* verify, against the caller's trust context where one is given.  The     *)
(* order of routes with equal sequence under one key is not kept.          *)
(***************************************************************************)
EXTENDS RouteLedger, FiniteSets

CONSTANTS
    Keys,         \* route keys
    Sources       \* nonempty source labels

NoWindow == [started_at |-> -1, attempts |-> 0]

EmptyStore(limits) ==
    [limits         |-> limits,
     live           |-> {},
     ledger         |-> [scope \in {} |-> 0],
     ledger_counts  |-> [key \in Keys |-> 0],
     revision       |-> 0,
     pruned_through |-> 0,
     source_counts  |-> [source \in Sources |-> 0],
     size           |-> 0,
     global_window  |-> NoWindow,
     windows        |-> [source \in Sources |-> NoWindow]]

Leave(store, result) == [store |-> store, result |-> result]

Scope(raw) == <<raw.key, raw.endpoint>>

At(store, model, key) == {item \in store.live : item.model = model /\ item.key = key}

\* The live route of the same model, key and endpoint as a record, if any.
Previous(store, raw) ==
    {item \in At(store, raw.model, raw.key) : item.endpoint = raw.endpoint}

-----------------------------------------------------------------------------
(* Live routes and the counters kept beside them *)

\* Takes routes out without giving back what their sources are charged.
ForgetfulDrop(store, items) ==
    [store EXCEPT !.live = @ \ items, !.size = @ - Cardinality(items)]

Drop(store, items) ==
    [store EXCEPT
        !.live = @ \ items,
        !.size = @ - Cardinality(items),
        !.source_counts = [source \in Sources |->
            @[source] - Cardinality({item \in items : item.source = source})]]

Push(store, item) ==
    [store EXCEPT !.live = @ \cup {item},
                  !.size = @ + 1,
                  !.source_counts[item.source] = @ + 1]

PruneStoreKey(store, model, key, now) ==
    Drop(store, {item \in At(store, model, key) : item.expires <= now})

RemoveNamedV3LiveRoutes(store, key) == Drop(store, At(store, "v3", key))

EffectiveNow(store, model, now) ==
    IF model = "v3" /\ store.pruned_through > now THEN store.pruned_through ELSE now

PruneAll(store, now) ==
    Drop(store, {item \in store.live : item.expires <= EffectiveNow(store, item.model, now)})

-----------------------------------------------------------------------------
(* The ledger *)

NamedV3TimeOk(store, now) == now >= store.pruned_through

RevisionExhausted(store) == store.revision + 1 >= MaxRevision

Elapsed(store, now) ==
    {scope \in DOMAIN store.ledger : store.ledger[scope].retain_until <= now}

CountScopes(ledger) ==
    [key \in Keys |-> Cardinality({scope \in DOMAIN ledger : scope[1] = key})]

KeepScopes(ledger, scopes) == [scope \in scopes |-> ledger[scope]]

\* Forgets elapsed scopes without recording the time they were forgotten at.
UndatedPrune(store, now) ==
    LET kept == KeepScopes(store.ledger, DOMAIN store.ledger \ Elapsed(store, now))
    IN  IF Elapsed(store, now) = {} THEN store
        ELSE [store EXCEPT !.ledger = kept,
                           !.ledger_counts = CountScopes(kept),
                           !.revision = @ + 1]

\* The store prune_named_v3_ledger leaves when it succeeds ...
PrunedLedger(store, now) ==
    LET kept == KeepScopes(store.ledger, DOMAIN store.ledger \ Elapsed(store, now))
    IN  IF Elapsed(store, now) = {} THEN store
        ELSE [store EXCEPT !.ledger = kept,
                           !.ledger_counts = CountScopes(kept),
                           !.revision = @ + 1,
                           !.pruned_through = now]

\* ... and the errors it fails with, leaving the store alone.
PruneLedgerError(store, now) ==
    CASE ~NamedV3TimeOk(store, now) -> "clock_rollback"
      [] NamedV3TimeOk(store, now) /\ Elapsed(store, now) # {} /\ RevisionExhausted(store) ->
            "revision_exhausted"
      [] OTHER -> "none"

PruneNamedV3Ledger(store, now) ==
    IF PruneLedgerError(store, now) # "none"
    THEN Leave(store, PruneLedgerError(store, now))
    ELSE Leave(PrunedLedger(store, now), "pruned")

SnapshotOf(store) ==
    [capacity        |-> store.limits.total_records,
     records_per_key |-> store.limits.records_per_key,
     revision        |-> store.revision,
     pruned_through  |-> store.pruned_through,
     entries         |-> store.ledger]

\* What decode accepts of an encoded snapshot.
SnapshotDecodes(snapshot) ==
    LET count == Cardinality(DOMAIN snapshot.entries) IN
    /\ 0 < snapshot.records_per_key /\ snapshot.records_per_key <= snapshot.capacity
    /\ count <= snapshot.capacity
    /\ count <= snapshot.revision
    /\ snapshot.revision # MaxRevision
    /\ snapshot.revision = 0 => count = 0 /\ snapshot.pruned_through = 0
    /\ \A key \in Keys : CountScopes(snapshot.entries)[key] <= snapshot.records_per_key
    /\ \A scope \in DOMAIN snapshot.entries :
            LET entry == snapshot.entries[scope] IN
            /\ entry.endpoint.high > 0 /\ entry.route.high > 0
            /\ entry.retain_until > snapshot.pruned_through

\* Drops the elapsed scopes of a snapshot as if nothing had been pruned.
RestoreUndated(limits, snapshot, now, minimum_revision) ==
    LET kept == KeepScopes(snapshot.entries,
                    {scope \in DOMAIN snapshot.entries :
                        snapshot.entries[scope].retain_until > now})
    IN  CASE \/ snapshot.capacity # limits.total_records
             \/ snapshot.records_per_key # limits.records_per_key
             \/ snapshot.revision < minimum_revision -> Leave(EmptyStore(limits), "incompatible")
          [] OTHER ->
             IF now < snapshot.pruned_through
             THEN Leave(EmptyStore(limits), "clock_rollback")
             ELSE Leave([EmptyStore(limits) EXCEPT
                            !.ledger = kept,
                            !.ledger_counts = CountScopes(kept),
                            !.revision = snapshot.revision,
                            !.pruned_through = snapshot.pruned_through],
                        "restored")

\* restore_named_v3_ledger into a fresh store.
RestoreNamedV3Ledger(limits, snapshot, now, minimum_revision) ==
    LET kept == KeepScopes(snapshot.entries,
                    {scope \in DOMAIN snapshot.entries :
                        snapshot.entries[scope].retain_until > now})
        all  == DOMAIN kept = DOMAIN snapshot.entries
    IN  CASE \/ snapshot.capacity # limits.total_records
             \/ snapshot.records_per_key # limits.records_per_key
             \/ snapshot.revision < minimum_revision -> Leave(EmptyStore(limits), "incompatible")
          [] OTHER ->
             IF now < snapshot.pruned_through
             THEN Leave(EmptyStore(limits), "clock_rollback")
             ELSE IF ~all /\ RevisionExhausted(snapshot)
             THEN Leave(EmptyStore(limits), "revision_exhausted")
             ELSE Leave([EmptyStore(limits) EXCEPT
                            !.ledger = kept,
                            !.ledger_counts = CountScopes(kept),
                            !.revision = IF all THEN snapshot.revision ELSE snapshot.revision + 1,
                            !.pruned_through = IF all THEN snapshot.pruned_through ELSE now],
                        "restored")

-----------------------------------------------------------------------------
(* Verification: its rate, and what it decides *)

ChargeVerification(store, source, now) ==
    LET limits == store.limits
        fresh  == [started_at |-> now, attempts |-> 0]
        Ended(window) == now >= window.started_at + limits.verification_window
        reset  == store.global_window # NoWindow /\ Ended(store.global_window)
        global == IF store.global_window = NoWindow \/ reset THEN fresh ELSE store.global_window
        others == IF reset THEN [other \in Sources |-> NoWindow] ELSE store.windows
        own    == IF others[source] = NoWindow \/ Ended(others[source]) THEN fresh
                  ELSE others[source]
        Set(g, ws) == [store EXCEPT !.global_window = g, !.windows = ws]
    IN  IF global.attempts >= limits.attempts_total
        THEN Leave(Set(global, others), "rate_limited")
        ELSE IF own.attempts >= limits.attempts_per_source
        THEN Leave(Set(global, [others EXCEPT ![source] = own]), "rate_limited")
        ELSE Leave(Set([global EXCEPT !.attempts = @ + 1],
                       [others EXCEPT ![source] = [own EXCEPT !.attempts = @ + 1]]),
                   "charged")

\* verify and verify_admission: signatures, bindings and the signed interval.
VerifyAdmission(raw, now) == raw.genuine /\ raw.issued <= now /\ now < raw.expires

\* verify_current_uncommitted against a service's current authority.
VerifyCurrent(raw, service, now) ==
    /\ service.validated_at <= now /\ now < service.cache_until
    /\ raw.key = service.key
    /\ raw.generation = service.generation
    /\ VerifyAdmission(raw, now)

\* A record's interval lies in its delegation's and its tickets' intervals.
CacheUntil(raw, service) ==
    IF service.cache_until < raw.expires THEN service.cache_until ELSE raw.expires

-----------------------------------------------------------------------------
(* Unnamed version-1 and legacy named version-2 routes *)

StoredRoute(raw, source, expires, current) ==
    [model |-> raw.model, key |-> raw.key, endpoint |-> raw.endpoint,
     sequence |-> raw.sequence, expires |-> expires, source |-> source,
     current |-> current, raw |-> raw]

SourceFull(store, source) ==
    store.source_counts[source] >= store.limits.records_per_source

KeyOrStoreFull(store, raw) ==
    \/ Cardinality(At(store, raw.model, raw.key)) >= store.limits.records_per_key
    \/ store.size >= store.limits.total_records

\* The error preflight_insert ends with, after it pruned the key.
PreflightInsert(store, raw, source) ==
    LET previous == Previous(store, raw) IN
    CASE previous # {} /\ (\E item \in previous : item.sequence >= raw.sequence) -> "stale_sequence"
      [] previous # {} /\ (\A item \in previous : item.sequence < raw.sequence)
                      /\ SourceFull(store, source)
                      /\ (\A item \in previous : item.source # source) -> "capacity"
      [] previous = {} /\ (KeyOrStoreFull(store, raw) \/ SourceFull(store, source)) -> "capacity"
      [] OTHER -> "none"

\* put, put_named and put_named_for_admission.
PutLegacy(store, raw, now, source) ==
    LET charged == ChargeVerification(store, source, now)
        pruned  == PruneStoreKey(charged.store, raw.model, raw.key, now)
        error   == PreflightInsert(pruned, raw, source)
    IN  IF charged.result # "charged" THEN charged
        ELSE IF ~raw.matches THEN Leave(charged.store, "invalid")
        ELSE IF error # "none" THEN Leave(pruned, error)
        ELSE IF ~VerifyAdmission(raw, now) THEN Leave(pruned, "invalid")
        ELSE Leave(Push(Drop(pruned, Previous(pruned, raw)),
                        StoredRoute(raw, source, raw.expires, FALSE)),
                   "stored")

-----------------------------------------------------------------------------
(* Version-3 named routes *)

NewScope(store, raw) == Scope(raw) \notin DOMAIN store.ledger

LedgerFull(store, raw) ==
    \/ Cardinality(DOMAIN store.ledger) >= store.limits.total_records
    \/ store.ledger_counts[raw.key] >= store.limits.records_per_key

BecomesLive(store, raw) ==
    NewScope(store, raw) \/ CandidateMatchesFinal(store.ledger[Scope(raw)], raw)

\* A live route realises both counters of its ledger entry, so a record that
\* repeats a counter must repeat the live route's value of it, and a record
\* that advances one must exceed it.
LiveDisagrees(store, raw, item) ==
    LET entry    == store.ledger[Scope(raw)]
        endpoint == EndpointDisposition(entry, raw)
        route    == RouteDisposition(entry, raw)
    IN  \/ NewScope(store, raw)
        \/ endpoint = "idempotent"
                /\ <<item.raw.endpoint_sequence, item.raw.delegation>>
                        # <<raw.endpoint_sequence, raw.delegation>>
        \/ endpoint = "advance" /\ item.raw.endpoint_sequence >= raw.endpoint_sequence
        \/ route = "idempotent" /\ item.raw # raw
        \/ route = "advance" /\ item.sequence >= raw.sequence

\* The error preflight_named_v3_live ends with, after it pruned the key.
PreflightNamedV3Live(store, raw, source) ==
    LET previous == Previous(store, raw)
        repeats  == ~NewScope(store, raw) /\ IsIdempotent(store.ledger[Scope(raw)], raw)
    IN  CASE ~BecomesLive(store, raw) -> "none"
          [] BecomesLive(store, raw) ->
             IF \E item \in previous : LiveDisagrees(store, raw, item) THEN "inconsistent"
             ELSE IF previous = {} /\ KeyOrStoreFull(store, raw) THEN "capacity"
             ELSE IF /\ ~(repeats /\ previous # {})
                     /\ SourceFull(store, source)
                     /\ \A item \in previous : item.source # source
             THEN "capacity"
             ELSE "none"

\* Keeps the live route when a verified record only moved the ledger.
LiveKeptAfter(store, raw, expires, current, source) ==
    IF BecomesLive(store, raw)
    THEN Push(Drop(store, Previous(store, raw)), StoredRoute(raw, source, expires, current))
    ELSE store

\* The live routes after a verified record: a record that is not current but
\* moved a counter takes the live route with it, a repeated one is refreshed.
LiveAfter(store, raw, expires, current, source) ==
    LET previous == Previous(store, raw)
        entry    == store.ledger[Scope(raw)]
        Refreshed(item) ==
            IF current THEN [item EXCEPT !.expires = expires, !.current = TRUE]
            ELSE IF ~item.current /\ expires < item.expires
            THEN [item EXCEPT !.expires = expires]
            ELSE item
    IN  IF ~BecomesLive(store, raw)
        THEN IF CounterMutates(entry, raw) THEN Drop(store, previous) ELSE store
        ELSE IF ~NewScope(store, raw) /\ IsIdempotent(entry, raw) /\ previous # {}
        THEN [store EXCEPT !.live = (@ \ previous) \cup {Refreshed(item) : item \in previous}]
        ELSE Push(Drop(store, previous), StoredRoute(raw, source, expires, current))

EntryAfter(store, raw, now) ==
    IF NewScope(store, raw) THEN NewEntry(raw, now)
    ELSE NextEntry(store.ledger[Scope(raw)], raw, now)

EntryChanges(store, raw, now) ==
    NewScope(store, raw) \/ EntryAfter(store, raw, now) # store.ledger[Scope(raw)]

\* insert_verified_named_v3.
InsertVerifiedNamedV3(store, raw, expires, current, now, source) ==
    LET scope == Scope(raw)
        entry == EntryAfter(store, raw, now)
        moved == IF EntryChanges(store, raw, now)
                 THEN [LiveAfter(store, raw, expires, current, source) EXCEPT
                        !.ledger = [s \in DOMAIN @ \cup {scope} |-> IF s = scope THEN entry ELSE @[s]],
                        !.ledger_counts[raw.key] = IF NewScope(store, raw) THEN @ + 1 ELSE @,
                        !.revision = @ + 1]
                 ELSE LiveAfter(store, raw, expires, current, source)
    IN  IF EntryChanges(store, raw, now) /\ RevisionExhausted(store)
        THEN Leave(store, "revision_exhausted")
        ELSE Leave(moved, IF BecomesLive(store, raw) THEN "stored"
                          ELSE Rejection(store.ledger[scope], raw))

\* put_named_v3_uncommitted and put_named_v3_for_admission: "verified" is the
\* verdict of the full verification, which runs after the cheap preflight.  The
\* preflight is repeated before the insertion, with the same outcome.
PutNamedV3(store, raw, now, source, verified, expires, current) ==
    LET charged == ChargeVerification(store, source, now)
        elapsed == PruneNamedV3Ledger(charged.store, now)
        aged    == elapsed.store
        known   == ~NewScope(aged, raw)
        entry   == aged.ledger[Scope(raw)]
        pruned  == PruneStoreKey(aged, "v3", raw.key, now)
        error   == PreflightNamedV3Live(pruned, raw, source)
    IN  IF ~NamedV3TimeOk(store, now) THEN Leave(store, "clock_rollback")
        ELSE IF charged.result # "charged" THEN charged
        ELSE IF ~raw.matches THEN Leave(charged.store, "invalid")
        ELSE IF elapsed.result # "pruned" THEN elapsed
        ELSE IF ~known /\ LedgerFull(aged, raw) THEN Leave(aged, "capacity")
        ELSE IF /\ known /\ ~CandidateMatchesFinal(entry, raw) /\ ~CounterMutates(entry, raw)
                /\ Horizon(raw.expires, now) <= entry.retain_until
        THEN Leave(aged, Rejection(entry, raw))
        ELSE IF error # "none" THEN Leave(pruned, error)
        ELSE IF ~verified THEN Leave(pruned, "invalid")
        ELSE InsertVerifiedNamedV3(pruned, raw, expires, current, now, source)

PutNamedV3ForAdmission(store, raw, now, source) ==
    PutNamedV3(store, raw, now, source, VerifyAdmission(raw, now), raw.expires, FALSE)

-----------------------------------------------------------------------------
(* Operations under a committed current authority.  "held" says whether its *)
(* lease is still held when the operation has run: the routes an operation  *)
(* touched under a lost lease are removed.  service is [key, withdrawn,     *)
(* generation, validated_at, cache_until, time].                            *)

FinishCurrentAuthorityOperation(outcome, affected, held) ==
    IF held THEN outcome
    ELSE Leave(IF affected = {} THEN outcome.store
               ELSE Drop(outcome.store,
                         {item \in outcome.store.live : item.model = "v3" /\ item.key \in affected}),
               "authority_lease_lost")

PutNamedV3Current(store, raw, service, now, source, held) ==
    LET timely == NamedV3TimeOk(store, now) /\ service.time = now /\ ~service.withdrawn
        outcome == IF ~NamedV3TimeOk(store, now) THEN Leave(store, "clock_rollback")
                   ELSE IF ~timely THEN Leave(store, "invalid")
                   ELSE PutNamedV3(store, raw, now, source,
                                   VerifyCurrent(raw, service, now),
                                   CacheUntil(raw, service), TRUE)
    IN  FinishCurrentAuthorityOperation(outcome, IF timely THEN {service.key} ELSE {}, held)

\* The routes of an active service that still verify, refreshed.
Revalidated(store, service, now) ==
    LET items == At(store, "v3", service.key)
        valid == {item \in items : VerifyCurrent(item.raw, service, now)}
        fresh == {[item EXCEPT !.expires = CacheUntil(item.raw, service), !.current = TRUE]
                    : item \in valid}
        kept  == Drop(store, items \ valid)
    IN  [kept EXCEPT !.live = (@ \ valid) \cup fresh]

\* "bound" says that the identity names the committed service on this network.
RevalidateNamedV3Current(store, service, now, bound, held) ==
    LET timely  == NamedV3TimeOk(store, now) /\ bound /\ service.time = now
        pruned  == PruneNamedV3Ledger(store, now)
        outcome == IF ~NamedV3TimeOk(store, now) THEN Leave(store, "clock_rollback")
                   ELSE IF ~timely THEN Leave(store, "invalid")
                   ELSE IF service.withdrawn
                   THEN Leave(RemoveNamedV3LiveRoutes(store, service.key), "revalidated")
                   ELSE IF pruned.result # "pruned" THEN pruned
                   ELSE Leave(Revalidated(pruned.store, service, now), "revalidated")
    IN  FinishCurrentAuthorityOperation(outcome, IF timely THEN {service.key} ELSE {}, held)

InvalidateNamedV3Withdrawal(store, service, now, bound, held) ==
    LET timely  == NamedV3TimeOk(store, now) /\ bound /\ service.time = now
        outcome == IF ~NamedV3TimeOk(store, now) THEN Leave(store, "clock_rollback")
                   ELSE IF ~timely \/ ~service.withdrawn THEN Leave(store, "invalid")
                   ELSE Leave(RemoveNamedV3LiveRoutes(store, service.key), "revalidated")
    IN  FinishCurrentAuthorityOperation(outcome, IF timely THEN {service.key} ELSE {}, held)

-----------------------------------------------------------------------------
(* Lookups, which prune what they look at *)

IsConflicted(store, scope, now) ==
    /\ scope \in DOMAIN store.ledger
    /\ store.ledger[scope].retain_until > EffectiveNow(store, "v3", now)
    /\ Conflicted(store.ledger[scope])

GetModelStore(store, model, key, now) ==
    PruneStoreKey(store, model, key, EffectiveNow(store, model, now))

\* The sets of routes get_model may answer with: the greatest sequences first,
\* none of a conflicted version-3 scope.
GetModel(store, model, key, maximum, now) ==
    LET items   == At(GetModelStore(store, model, key, now), model, key)
        offered == {item \in items :
                        model # "v3" \/ ~IsConflicted(store, <<key, item.endpoint>>, now)}
        count   == IF Cardinality(offered) < maximum THEN Cardinality(offered) ELSE maximum
    IN  {chosen \in SUBSET offered :
            /\ Cardinality(chosen) = count
            /\ \A item \in chosen, other \in offered \ chosen : item.sequence >= other.sequence}
=============================================================================
