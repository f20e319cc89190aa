--------------------------- MODULE AuthorityNode ----------------------------
(***************************************************************************)
(* Contexts (tabs, workers, processes) that share the durable aggregate of *)
(* one name: the fenced lease scopes of lease.rs around the asynchronous   *)
(* operations of ReconfirmedNamedServiceAuthorityState.  The lease broker  *)
(* and the store are the embedding's: the broker hands the lease to one    *)
(* context at a time with a growing fencing token but may take it back     *)
(* unannounced, and the store applies a write only if the token is the     *)
(* newest and the expectation holds.  Answers of the store may be lost,    *)
(* writes arrive late, futures are cancelled, contexts crash, and the      *)
(* store may be put back to an old copy while nobody uses it.              *)
(***************************************************************************)
EXTENDS AuthorityState, TLC

CONSTANTS
    Contexts, Manifests,
    MaxTime, MaxFence, MaxFaults   \* bounds

VARIABLES
    store, floor,      \* durable snapshot or NoVal; authenticated floor
    fence, holder,     \* newest fencing token; context holding the lease
    writes,            \* writes on their way to the store
    context,           \* per context: see Context
    faults,            \* faults so far
    installed          \* history: every snapshot the store ever held

vars == <<store, floor, fence, holder, writes, context, faults, installed>>

Times == 0..MaxTime

NoOp == [kind |-> "none", now |-> 0, service |-> NoVal, step |-> "none",
         outcome |-> "ok", observed |-> {}]

\* pc: idle, held (in a lease scope), loaded, ready (reconfirmed),
\* persisting (a write is awaited) or retrieving (a manifest is awaited).
Context ==
    [pc |-> "idle", state |-> NoVal, fence |-> 0, loaded |-> NoVal,
     op |-> NoOp, reply |-> NoVal, committed |-> NoVal, bound |-> NoVal,
     invalid |-> FALSE]

Init ==
    /\ store = NoVal /\ floor = 0
    /\ fence = 0 /\ holder = NoVal
    /\ writes = {}
    /\ context = [c \in Contexts |-> Context]
    /\ faults = 0
    /\ installed = {}

\* ensure_held of a guard that keeps its contract
Held(c) == holder = c /\ context[c].fence = fence

Set(c, x) == context' = [context EXCEPT ![c] = x]

\* Leaving the scope drops the guard, and with it the lease.
Release(c) == holder' = IF Held(c) THEN NoVal ELSE holder

Idle(x) == [x EXCEPT !.pc = "idle", !.op = NoOp, !.reply = NoVal,
                     !.loaded = NoVal, !.bound = NoVal]

-----------------------------------------------------------------------------
\* Creating and restoring a state, and entering a lease scope.

NewStep(c) ==
    /\ context[c].pc = "idle" /\ context[c].state = NoVal
    /\ \E now \in Times : Set(c, [context[c] EXCEPT !.state = NewState(now)])
    /\ UNCHANGED <<store, floor, fence, holder, writes, faults, installed>>

RestoreStep(c) ==
    /\ context[c].pc = "idle" /\ context[c].state = NoVal
    /\ store # NoVal
    /\ \E now \in Times : \E state \in RestoreState(store, floor, now) :
          Set(c, [context[c] EXCEPT !.state = state])
    /\ UNCHANGED <<store, floor, fence, holder, writes, faults, installed>>

\* HeldFencedLease::acquire and the entry of run
Acquire(c) ==
    /\ context[c].pc = "idle" /\ context[c].state # NoVal
    /\ holder = NoVal /\ fence < MaxFence
    /\ fence' = fence + 1 /\ holder' = c
    /\ Set(c, [context[c] EXCEPT !.pc = "held", !.fence = fence + 1])
    /\ UNCHANGED <<store, floor, writes, faults, installed>>

\* reconfirm_async up to the answer of the loader
Load(c) ==
    /\ context[c].pc = "held" /\ Held(c)
    /\ Set(c, [context[c] EXCEPT !.pc = "loaded",
                                 !.loaded = [value |-> store, floor |-> floor]])
    /\ UNCHANGED <<store, floor, fence, holder, writes, faults, installed>>

\* the rest of reconfirm_async
Reconcile(c) ==
    LET x == context[c]
    IN  /\ x.pc = "loaded"
        /\ IF Held(c) /\ ReconcileLoaded(x.state, x.loaded.value, x.loaded.floor) # {}
           THEN \E pending \in ReconcileLoaded(x.state, x.loaded.value, x.loaded.floor) :
                   Set(c, [x EXCEPT !.pc = "ready", !.loaded = NoVal,
                                    !.state.pending = pending])
           ELSE Set(c, [x EXCEPT !.pc = "held", !.loaded = NoVal])
        /\ UNCHANGED <<store, floor, fence, holder, writes, faults, installed>>

\* The end of run: without the lease its result is withheld.
EndRun(c) ==
    LET x == context[c]
    IN  /\ x.pc \in {"held", "ready"}
        /\ Set(c, [Idle(x) EXCEPT !.committed =
                      IF ~Held(c) /\ @ # NoVal /\ @.fence = x.fence THEN NoVal ELSE @])
        /\ Release(c)
        /\ UNCHANGED <<store, floor, fence, writes, faults, installed>>

-----------------------------------------------------------------------------
\* The operations, from one await to the next.  Each continuation yields the
\* context and the writes it adds.

Step(x, w) == [context |-> x, writes |-> w]

Finish(x, outcome) ==
    Step([x EXCEPT !.pc = "ready", !.op = NoOp, !.reply = NoVal,
                   !.invalid = @ \/ outcome = "invalid"], {})

Write(x) == [fence |-> x.fence, expectation |-> x.state.pending,
             snapshot |-> x.state.snapshot]

\* persist_pending up to its await, when something is pending
Persist(x, step) ==
    Step([x EXCEPT !.pc = "persisting", !.op.step = step, !.reply = NoVal],
         {Write(x)})

\* The result of validate_and_observe_resolved once nothing is pending.
AfterObserve(x) ==
    LET done == Finish(x, x.op.outcome).context
    IN  IF x.op.observed = {} THEN Step(done, {})
        ELSE Step([done EXCEPT !.committed =
                     Committed(x.state.snapshot.revision, x.op.service,
                               CHOOSE o \in x.op.observed : TRUE, x.op.now)
                       @@ [fence |-> x.fence]], {})

\* The exact time is durable: retrieve, or return from advance_trusted_time.
AfterTime(x) ==
    IF x.op.kind = "observe"
    THEN Step([x EXCEPT !.pc = "retrieving", !.reply = NoVal], {})
    ELSE Finish(x, "ok")

\* advance_trusted_time_persisted after the pending write, if any, settled
AfterSettle(x) ==
    LET old == x.state.snapshot
        prepared == PrepareTransition(x.state, x.op.now, old.root, old.observations)
        y == [x EXCEPT !.state = prepared.state]
    IN  IF x.op.kind = "persist" THEN Finish(x, "ok")
        ELSE IF x.op.now < old.time THEN Finish(x, "refused")
        ELSE IF prepared.outcome # "ok" THEN Finish(x, prepared.outcome)
        ELSE IF y.state.pending = NoVal THEN AfterTime(y)
        ELSE Persist(y, "time")

\* persist_pending once the lease was checked, with what follows it.
Continue(x, step) ==
    CASE step = "settle"  -> AfterSettle(x)
      [] step = "time"    -> AfterTime(x)
      [] step = "observe" -> AfterObserve(x)

PersistPending(x, step) ==
    IF x.state.pending = NoVal THEN Continue(x, step) ELSE Persist(x, step)

Take(c, r) ==
    /\ Set(c, r.context)
    /\ writes' = writes \union r.writes

\* persist_pending, advance_trusted_time_persisted and
\* retrieve_validate_and_observe of the reconfirmed state.  They take it
\* mutably, so no guard borrowed from it is left.
StartOp(c) ==
    /\ context[c].pc = "ready" /\ Held(c)
    /\ \E kind \in {"persist", "advance", "observe"}, now \in Times, s \in Services :
          /\ kind = "persist" => now = 0
          /\ kind # "observe" => s = CHOOSE t \in Services : TRUE
          /\ Take(c, PersistPending(
                [context[c] EXCEPT !.bound = NoVal,
                    !.op = [NoOp EXCEPT !.kind = kind, !.now = now, !.service = s]],
                "settle"))
    /\ UNCHANGED <<store, floor, fence, holder, faults, installed>>

\* The store's answer arrived: done if the lease is still held.
Persisted(c) ==
    LET x == context[c]
    IN  /\ x.pc = "persisting" /\ x.reply = "ok"
        /\ Take(c, IF Held(c)
                   THEN Continue([x EXCEPT !.state.pending = NoVal], x.op.step)
                   ELSE Finish(x, "refused"))
        /\ UNCHANGED <<store, floor, fence, holder, faults, installed>>

\* The store refused.
PersistRefused(c) ==
    /\ context[c].pc = "persisting" /\ context[c].reply = "error"
    /\ Take(c, Finish(context[c], "refused"))
    /\ UNCHANGED <<store, floor, fence, holder, faults, installed>>

\* Mutant: a lost answer counts as success.
TimeoutSettles(c) ==
    /\ context[c].pc = "persisting" /\ faults < MaxFaults
    /\ faults' = faults + 1
    /\ Take(c, Continue([context[c] EXCEPT !.state.pending = NoVal], context[c].op.step))
    /\ UNCHANGED <<store, floor, fence, holder, installed>>

\* The store's answer is lost or takes too long; the write may be applied,
\* before or after.
PersistTimesOut(c) ==
    /\ context[c].pc = "persisting" /\ faults < MaxFaults
    /\ faults' = faults + 1
    /\ Take(c, Finish(context[c], "refused"))
    /\ UNCHANGED <<store, floor, fence, holder, installed>>

\* The resolver answered with some manifest, and validate_and_observe_resolved.
Retrieved(c) ==
    LET x == context[c]
    IN  /\ x.pc = "retrieving"
        /\ \E manifest \in Manifests :
              LET p == PrepareValidateAndObserve(x.state, manifest, x.op.service, x.op.now)
              IN  Take(c, IF ~Held(c) THEN Finish(x, "refused")
                          ELSE PersistPending(
                                [x EXCEPT !.state = p.state, !.op.outcome = p.outcome,
                                          !.op.observed = p.observed], "observe"))
        /\ UNCHANGED <<store, floor, fence, holder, faults, installed>>

\* The resolver failed.
RetrievalFails(c) ==
    /\ context[c].pc = "retrieving"
    /\ Take(c, Finish(context[c], "refused"))
    /\ UNCHANGED <<store, floor, fence, holder, faults, installed>>

\* bind_current_at: a guard on the committed result.
Bind(c) ==
    LET x == context[c]
    IN  /\ x.pc = "ready" /\ Held(c) /\ x.committed # NoVal
        /\ \E now \in Times :
              /\ BindCurrentAt(x.state, x.committed, now)
              /\ Set(c, [x EXCEPT !.bound = [result |-> x.committed, now |-> now]])
        /\ UNCHANGED <<store, floor, fence, holder, writes, faults, installed>>

-----------------------------------------------------------------------------
\* The embedding.

\* A write reaches the store.  The same bytes twice are acknowledged twice.
StoreWrite(w) ==
    LET ok == /\ w.fence = fence
              /\ \/ store = w.snapshot
                 \/ store = (IF w.expectation = Absent THEN NoVal ELSE w.expectation)
    IN  /\ writes' = writes \ {w}
        /\ store' = IF ok THEN w.snapshot ELSE store
        /\ floor' = IF ok THEN w.snapshot.revision ELSE floor
        /\ installed' = IF ok THEN installed \union {w.snapshot} ELSE installed
        /\ context' = [c \in Contexts |->
              IF context[c].pc = "persisting" /\ Write(context[c]) = w
              THEN [context[c] EXCEPT !.reply = IF ok THEN "ok" ELSE "error"]
              ELSE context[c]]
        /\ UNCHANGED <<fence, holder, faults>>

\* The broker takes the lease back.
LeaseLost ==
    /\ holder # NoVal /\ faults < MaxFaults
    /\ faults' = faults + 1
    /\ holder' = NoVal
    /\ UNCHANGED <<store, floor, fence, writes, context, installed>>

\* The operation's future is dropped; the state stays in memory.
Cancel(c) ==
    /\ context[c].pc \in {"persisting", "retrieving", "loaded"} /\ faults < MaxFaults
    /\ faults' = faults + 1
    /\ Set(c, Idle(context[c])) /\ Release(c)
    /\ UNCHANGED <<store, floor, fence, writes, installed>>

\* The context is gone and starts over.
Crash(c) ==
    /\ context[c].state # NoVal /\ faults < MaxFaults
    /\ faults' = faults + 1
    /\ Set(c, [Context EXCEPT !.invalid = context[c].invalid]) /\ Release(c)
    /\ UNCHANGED <<store, floor, fence, writes, installed>>

\* The database is restored from an old copy; the floor is kept elsewhere.
RollBackStore ==
    /\ holder = NoVal /\ writes = {} /\ faults < MaxFaults
    /\ faults' = faults + 1
    /\ \E old \in installed : store' = old
    /\ UNCHANGED <<floor, fence, holder, writes, context, installed>>

Next ==
    \/ \E c \in Contexts :
          \/ NewStep(c) \/ RestoreStep(c) \/ Acquire(c) \/ Load(c) \/ Reconcile(c)
          \/ EndRun(c) \/ StartOp(c) \/ Persisted(c) \/ PersistRefused(c)
          \/ PersistTimesOut(c) \/ Retrieved(c) \/ RetrievalFails(c) \/ Bind(c)
          \/ Cancel(c) \/ Crash(c)
    \/ \E w \in writes : StoreWrite(w)
    \/ LeaseLost
    \/ RollBackStore

Spec == Init /\ [][Next]_vars

-----------------------------------------------------------------------------
\* Properties.

SnapshotOK(s) ==
    /\ s.revision \in 0..(MaxRevision - 1)
    /\ s.time \in Times
    /\ DOMAIN s.observations \subseteq Services
    /\ Validate(s)

\* A CurrentCommittedNamedService guard whose lease is held speaks of what the
\* store holds: bind_current_at after reconfirm never binds a result another
\* context has replaced, nor one whose write did not happen, and an active
\* service is bound only before it expires.
BoundIsDurable ==
    \A c \in Contexts :
        LET x == context[c]
        IN  x.bound # NoVal /\ Held(c) =>
              /\ store = x.state.snapshot
              /\ x.bound.result.revision = store.revision
              /\ store.observations[x.bound.result.service] = x.bound.result.observation
              /\ x.bound.now = store.time
              /\ ~IsWithdrawn(x.bound.result.observation) =>
                    x.bound.now < x.bound.result.cacheUntil

\* The store never held two snapshots of one revision, and its trusted time
\* never falls as the revision grows: fenced compare-and-swap, the pending
\* expectation and the rollback floor together keep one lineage, although
\* contexts create, restore and retry on their own.  A store that was written is
\* never empty again: the embedding rules that out, and the code cannot notice.
NoForkedLineage ==
    \A s, t \in installed :
        s.revision <= t.revision => /\ s.time <= t.time
                                    /\ s.revision = t.revision => s = t

\* Along the lineage no service loses its observation, falls back to a lower
\* generation, changes the delegation of a generation, or returns from a
\* withdrawal without a higher generation, except that a step whose root rolls
\* back (an accepted reorganization) forgets every observation at once.
GenerationsNeverFall ==
    \A s, t \in installed :
        t.revision = s.revision + 1 =>
          IF s.root # NoVal /\ ActuallyRollsBack(s.root, t.root)
          THEN \A r \in DOMAIN t.observations : t.observations[r].root = t.root
          ELSE \A r \in DOMAIN s.observations :
                 /\ r \in DOMAIN t.observations
                 /\ LET a == s.observations[r]
                        b == t.observations[r]
                    IN  /\ a.highest <= b.highest
                        /\ a.highest = b.highest => a.highWater = b.highWater
                        /\ IsWithdrawn(a) /\ ~IsWithdrawn(b) => a.highest < b.highest

\* A CommittedNamedService is released only after the store held it: some
\* installed snapshot has its revision, its observation and its time.  And
\* retrieve is called only once the operation's exact time is durable and
\* nothing is pending, so that a restart cannot validate what it retrieves
\* against an older clock.
ResultsAreDurable ==
    \A c \in Contexts :
        LET x == context[c]
            r == x.committed
        IN  /\ r # NoVal => \E s \in installed :
                /\ s.revision = r.revision
                /\ s.time = r.validatedAt
                /\ r.service \in DOMAIN s.observations
                /\ s.observations[r.service] = r.observation
            /\ x.pc = "retrieving" =>
                /\ x.state.pending = NoVal
                /\ x.state.snapshot.time = x.op.now
                /\ x.state.snapshot \in installed

\* No transition is refused by its own validate: accepted roots and retained
\* observations always fit, whatever reorganizations and withdrawals came
\* before, so a valid manifest cannot leave the aggregate stuck.  Every
\* snapshot in memory or in the store can be decoded again, and what is pending
\* is its predecessor in the lineage.
PreparedIsValid ==
    /\ \A s \in installed : SnapshotOK(s)
    /\ \A c \in Contexts :
          LET state == context[c].state
          IN  /\ ~context[c].invalid
              /\ state # NoVal =>
                    /\ SnapshotOK(state.snapshot)
                    /\ state.pending \notin {NoVal, Absent} =>
                          state.snapshot.revision = state.pending.revision + 1
=============================================================================
