------------------------ MODULE PersistentRendezvous ------------------------
(***************************************************************************)
(* The leased persistent rendezvous service (persistent_routing.rs): a     *)
(* RouteStore whose replay ledger is written to external storage before    *)
(* any answer that depends on it is released.                              *)
(*                                                                         *)
(* Several instances of the service may exist, of which the broker's       *)
(* fencing token names one as the owner.  An operation takes the inner     *)
(* service out of the instance, runs through the storage callbacks and the *)
(* emission callback, each of which may be suspended, fail, or find that   *)
(* the lease went to another instance, and puts the inner service back or  *)
(* leaves the instance poisoned.  "storage" and "fence" are external: they *)
(* follow the contract the trait and callback documentation states.        *)
(***************************************************************************)
EXTENDS RouteStore, Sequences

CONSTANTS
    Instances,            \* service instances
    Settings,             \* what a behaviour is made of: [instances, fences (a
                          \* bound on acquisitions), limits (RouteStoreLimits),
                          \* records, authorities, legacy_v2]
    MaxContacts,          \* MAX_CONTACTS, the most records of an answer
    Times                 \* the times the embedding supplies

VARIABLES
    setting,      \* the setting of this behaviour
    storage,      \* the durable ledger: [initialized, snapshot]
    fence,        \* the token of the last acquisition
    service,      \* [Instances -> LeasedPersistentRendezvousService]
    released      \* history: the verdicts on version-3 records that left the node

vars == <<setting, storage, fence, service, released>>

None == [none |-> TRUE]

\* What an operation answers with: the verdict on a version-3 record, if it is
\* one that promises anything, and the routes served.
NoAnswer == [verdict |-> {}, served |-> {}]

\* An operation in flight: the stages left, the time it runs at, its answer.
NoOperation == [todo |-> <<>>, now |-> 0, answer |-> NoAnswer]

Closed == [phase |-> "closed", token |-> 0, routes |-> None, operation |-> NoOperation]

EmptySnapshot == SnapshotOf(EmptyStore(setting.limits))

Init ==
    /\ setting \in Settings
    /\ storage = [initialized |-> FALSE, snapshot |-> EmptySnapshot]
    /\ fence = 0
    /\ service = [p \in Instances |-> Closed]
    /\ released = {}

Held(p) == service[p].token = fence

Become(p, instance) == service' = [service EXCEPT ![p] = instance]

\* poison: the inner service, and its volatile routes, are dropped.
Poisoned(p) == [Closed EXCEPT !.phase = "poisoned", !.token = service[p].token]

\* restore_inner, which checks the lease once more.
Restored(p, routes) ==
    IF Held(p)
    THEN [service[p] EXCEPT !.phase = "idle", !.routes = routes, !.operation = NoOperation]
    ELSE Poisoned(p)

-----------------------------------------------------------------------------
(* Opening: acquire the lease, then load the durable ledger under it *)

Acquire(p) ==
    /\ service[p].phase \in {"closed", "poisoned"}
    /\ fence < setting.fences
    /\ fence' = fence + 1
    /\ Become(p, [Closed EXCEPT !.phase = "acquired", !.token = fence + 1])
    /\ UNCHANGED <<setting, storage, released>>

\* LocalPersistentRouteStore::open on what storage holds.
OpenedRoutes(now) ==
    IF ~storage.initialized
    THEN [result |-> "restored",
          routes |-> [volatile     |-> EmptyStore(setting.limits),
                      acknowledged |-> None,
                      pending      |-> [expected |-> None, proposed |-> EmptySnapshot]]]
    ELSE LET restored == RestoreNamedV3Ledger(setting.limits, storage.snapshot, now,
                                              storage.snapshot.revision)
             current  == SnapshotOf(restored.store)
         IN  [result |-> restored.result,
              routes |-> [volatile     |-> restored.store,
                          acknowledged |-> storage.snapshot,
                          pending      |-> IF current = storage.snapshot THEN None
                                           ELSE [expected |-> storage.snapshot,
                                                 proposed |-> current]]]

Load(p) ==
    /\ service[p].phase = "acquired"
    /\ \E now \in Times :
        LET opened == OpenedRoutes(now) IN
        Become(p, IF Held(p) /\ opened.result = "restored"
                  THEN [service[p] EXCEPT !.phase = "idle", !.routes = opened.routes]
                  ELSE Closed)
    /\ UNCHANGED <<setting, storage, fence, released>>

-----------------------------------------------------------------------------
(* One operation: it runs without interruption up to its next callback *)

\* What the stages of an operation do to the volatile store.
Stage(store, stage, now) ==
    CASE stage.do = "put" /\ stage.raw.model = "v3" ->
            PutNamedV3ForAdmission(store, stage.raw, now, stage.source)
      [] stage.do = "put" /\ stage.raw.model # "v3" ->
            PutLegacy(store, stage.raw, now, stage.source)
      [] stage.do = "put_current" ->
            PutNamedV3Current(store, stage.raw, stage.by, now, stage.source, TRUE)
      [] stage.do = "revalidate" -> RevalidateNamedV3Current(store, stage.by, now, TRUE, TRUE)
      [] stage.do = "invalidate" -> InvalidateNamedV3Withdrawal(store, stage.by, now, TRUE, TRUE)
      [] stage.do = "get" -> Leave(GetModelStore(store, stage.model, stage.key, now), "found")

Succeeded(result) == result \in {"stored", "revalidated", "found"}

Verdict(stage, result, now) ==
    IF /\ stage.do \in {"put", "put_current"} /\ stage.raw.model = "v3"
       /\ result \in {"stored", "conflicting_sequence"}
    THEN {[raw |-> stage.raw, result |-> result, now |-> now]}
    ELSE {}

\* capture_current, which prunes, after the volatile change "done" of a stage.
\* An error ends the operation, but not before a changed ledger is persisted.
Capture(instance, stage, done, captured, proposed, found) ==
    LET op   == instance.operation
        kept == captured.result = "pruned"
        left == IF kept /\ Succeeded(done.result) THEN Tail(op.todo) ELSE <<>>
        acknowledged == instance.routes.acknowledged
    IN  [instance EXCEPT
            !.routes.volatile = captured.store,
            !.routes.pending = IF ~kept \/ proposed = acknowledged THEN None
                               ELSE [expected |-> acknowledged, proposed |-> proposed],
            !.operation = [todo   |-> left,
                           now    |-> IF left = <<>> THEN 0 ELSE op.now,
                           answer |-> IF kept
                                      THEN [verdict |-> Verdict(stage, done.result, op.now),
                                            served  |-> op.answer.served
                                                            \cup {item.raw : item \in found}]
                                      ELSE NoAnswer]]

\* The routes a stage finds.
Found(instance, stage) ==
    IF stage.do = "get"
    THEN GetModel(instance.routes.volatile, stage.model, stage.key,
                  stage.maximum - Cardinality(instance.operation.answer.served),
                  instance.operation.now)
    ELSE {{}}

\* Answers before the changed ledger is captured.
UncapturedStage(instance) ==
    LET stage == Head(instance.operation.todo)
        now   == instance.operation.now
    IN  {[instance EXCEPT
            !.routes.volatile = done.store,
            !.operation.todo = <<>>,
            !.operation.answer.verdict = Verdict(stage, done.result, now)]
            : done \in {Stage(instance.routes.volatile, stage, now)}}

\* The volatile change and its capture in run_persisted.
CapturedStage(instance) ==
    LET stage == Head(instance.operation.todo)
        now   == instance.operation.now
    IN  UNION {{Capture(instance, stage, done, captured, SnapshotOf(captured.store), found)
                    : captured \in {PruneNamedV3Ledger(done.store, now)},
                      found \in Found(instance, stage)}
                : done \in {Stage(instance.routes.volatile, stage, now)}}

\* The next stage, unless a write is pending or nothing is left to do.  The
\* first stage of an unsupported packet changes nothing and captures nothing.
RunStage(instance) ==
    CASE instance.routes.pending # None \/ instance.operation.todo = <<>> -> {instance}
      [] OTHER ->
         IF Head(instance.operation.todo).do = "refuse"
         THEN {[instance EXCEPT !.operation = NoOperation]}
         ELSE CapturedStage(instance)

\* No operation has more than two stages.
Proceed(instance) == UNION {RunStage(next) : next \in RunStage(instance)}

\* begin_operation; the inner service is taken out and runs.
Begin(p, todo, now) ==
    /\ service[p].phase = "idle"
    /\ \E next \in IF Held(p)
                   THEN Proceed([service[p] EXCEPT
                            !.phase = "busy",
                            !.operation = [todo |-> todo, now |-> now, answer |-> NoAnswer]])
                   ELSE {Poisoned(p)} :
            Become(p, next)
    /\ UNCHANGED <<setting, storage, fence, released>>

HandlePut(p) ==
    \E raw \in setting.records, now \in Times, source \in Sources :
        Begin(p, IF raw.model = "v2" /\ ~setting.legacy_v2 THEN <<[do |-> "refuse"]>>
                 ELSE <<[do |-> "put", raw |-> raw, source |-> source]>>, now)

\* GetRoute asks for at least one record and at most MAX_CONTACTS; the unnamed
\* records fill what the named ones leave.
HandleGet(p) ==
    \E key \in Keys, maximum \in 1..MaxContacts, now \in Times :
        Begin(p, <<[do |-> "get", model |-> "v3", key |-> key, maximum |-> maximum],
                   [do |-> "get", model |-> "v1", key |-> key, maximum |-> maximum]>>, now)

\* put_named_v3_current, revalidate_named_v3_current and
\* invalidate_named_v3_withdrawal of the leased service.
ApplyAuthority(p) ==
    \E authority \in setting.authorities, now \in Times :
        \/ \E raw \in {raw \in setting.records : raw.model = "v3"}, source \in Sources :
            Begin(p, <<[do |-> "put_current", raw |-> raw, source |-> source,
                        by |-> authority]>>, now)
        \/ \E do \in {"revalidate", "invalidate"} :
            Begin(p, <<[do |-> do, by |-> authority]>>, now)

\* ensure_authority_held: a lost authority lease poisons the service.
AuthorityLost(p) ==
    /\ service[p].phase = "idle"
    /\ Become(p, Poisoned(p))
    /\ UNCHANGED <<setting, storage, fence, released>>

-----------------------------------------------------------------------------
(* The callbacks *)

\* The storage callback: an atomic compare-and-swap under the fencing token
\* that may also report an error after it installed the proposal.
StoreMatches(pending) ==
    IF pending.expected = None THEN ~storage.initialized
    ELSE storage.initialized /\ storage.snapshot = pending.expected

StoreHolds(pending) == storage.initialized /\ storage.snapshot = pending.proposed

\* Forgets the proposal whose outcome the callback could not tell.
ForgetPending(routes) == [routes EXCEPT !.pending = None]

\* A failed write stays pending and is retried before anything else.
KeepPending(routes) == routes

Persist(p) ==
    LET routes  == service[p].routes
        pending == routes.pending
    IN  /\ service[p].phase = "busy" /\ pending # None
        /\ \/ /\ ~Held(p)
              /\ Become(p, Poisoned(p))
              /\ UNCHANGED storage
           \/ /\ Held(p) /\ (StoreMatches(pending) \/ StoreHolds(pending))
              /\ storage' = [initialized |-> TRUE, snapshot |-> pending.proposed]
              /\ \/ \E next \in Proceed([service[p] EXCEPT
                                    !.routes.acknowledged = pending.proposed,
                                    !.routes.pending = None]) :
                        Become(p, next)
                 \/ Become(p, Restored(p, KeepPending(routes)))
           \/ /\ Held(p)
              /\ Become(p, Restored(p, KeepPending(routes)))
              /\ UNCHANGED storage
        /\ UNCHANGED <<setting, fence, released>>

Ready(p) ==
    /\ service[p].phase = "busy"
    /\ service[p].routes.pending = None
    /\ service[p].operation.todo = <<>>

\* The emission callback, or the return of an authority operation.  An answer
\* leaves the node only under the current fencing token; when the emission
\* fails its delivery is ambiguous.
Emit(p) ==
    /\ Ready(p)
    /\ \/ /\ ~Held(p)
          /\ Become(p, Poisoned(p))
          /\ UNCHANGED released
       \/ /\ Held(p)
          /\ released' = released \cup service[p].operation.answer.verdict
          /\ Become(p, Restored(p, service[p].routes)) \/ Become(p, Poisoned(p))
       \/ /\ Held(p)
          /\ Become(p, Poisoned(p))
          /\ UNCHANGED released
    /\ UNCHANGED <<setting, storage, fence>>

\* The future is dropped, a callback unwinds, or the authority's lease is lost.
Cancel(p) ==
    /\ service[p].phase = "busy"
    /\ Become(p, Poisoned(p))
    /\ UNCHANGED <<setting, storage, fence, released>>

Crash(p) ==
    /\ service[p].phase # "closed"
    /\ Become(p, Closed)
    /\ UNCHANGED <<setting, storage, fence, released>>

Next ==
    \E p \in setting.instances :
        \/ Acquire(p)
        \/ Load(p)
        \/ HandlePut(p)
        \/ HandleGet(p)
        \/ ApplyAuthority(p)
        \/ AuthorityLost(p)
        \/ Persist(p)
        \/ Emit(p)
        \/ Cancel(p)
        \/ Crash(p)

Spec == Init /\ [][Next]_vars

-----------------------------------------------------------------------------

Entry(raw) == storage.snapshot.entries[Scope(raw)]

\* The durable ledger stands exactly at a record's sequences.
Realised(raw) ==
    /\ Scope(raw) \in DOMAIN storage.snapshot.entries
    /\ Entry(raw).endpoint = NewCounter(raw.endpoint_sequence, raw.delegation)
    /\ Entry(raw).route = NewCounter(raw.sequence, raw.hash)

\* What an owner is about to release is backed by the durable ledger: an
\* accepted record and every served version-3 route realise the stored entry of
\* their scope, and the entry stands above a record answered with a conflict.
\* A crash right after the answer loses nothing the answer told.
AnswersAreDurable ==
    \A p \in Instances : Ready(p) /\ Held(p) =>
        /\ \A raw \in service[p].operation.answer.served : raw.model = "v3" => Realised(raw)
        /\ \A verdict \in service[p].operation.answer.verdict :
            /\ verdict.result = "stored" => Realised(verdict.raw)
            /\ verdict.result = "conflicting_sequence" =>
                /\ Scope(verdict.raw) \in DOMAIN storage.snapshot.entries
                /\ ~CandidateMatchesFinal(Entry(verdict.raw), verdict.raw)

\* The owner's pending write always fits the durable ledger: it either still
\* holds what the write expects or already holds what the write proposes, also
\* after an outcome the owner could not tell and across changes of owner.
PendingFitsStorage ==
    \A p \in Instances :
        /\ Held(p) /\ service[p].phase \in {"idle", "busy"}
        /\ service[p].routes.pending # None
        => StoreMatches(service[p].routes.pending) \/ StoreHolds(service[p].routes.pending)

\* No answer takes back an earlier one.  While a record that was accepted, or
\* answered with a conflict, is inside its retention horizon, the node accepts
\* for that scope neither a smaller sequence of either kind, nor another record
\* of the same sequence, nor the record it found in conflict: whatever crashes,
\* changes of owner, lost write outcomes and clock jumps lie between.
AcceptedNeverRegresses ==
    \A p \in Instances : Ready(p) /\ Held(p) =>
        \A new \in service[p].operation.answer.verdict, old \in released :
            /\ new.result = "stored"
            /\ Scope(new.raw) = Scope(old.raw)
            /\ new.now < Horizon(old.raw.expires, old.now)
            => /\ old.result = "conflicting_sequence" => new.raw # old.raw
               /\ old.result = "stored" =>
                    /\ new.raw.sequence >= old.raw.sequence
                    /\ new.raw.endpoint_sequence >= old.raw.endpoint_sequence
                    /\ new.raw.sequence = old.raw.sequence => new.raw = old.raw
=============================================================================
