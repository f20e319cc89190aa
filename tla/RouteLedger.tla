---------------------------- MODULE RouteLedger ----------------------------
(***************************************************************************)
(* The replay ledger of version-3 named routes (routing.rs).               *)
(*                                                                         *)
(* A ledger entry belongs to one scope, a (route key, endpoint key) pair,  *)
(* and holds two independent counters: the endpoint delegation's sequence  *)
(* and the route record's sequence.  A counter remembers the greatest      *)
(* sequence observed, the least identifier observed at that sequence (a    *)
(* delegation id, a canonical hash of the route bytes) and whether two     *)
(* identifiers were observed there.  Identifiers are naturals: the code    *)
(* compares them as byte strings.                                          *)
(*                                                                         *)
(* A route record is [key, endpoint, endpoint_sequence, delegation,        *)
(* sequence, hash, ...]; its hash stands for its canonical bytes.          *)
(***************************************************************************)
EXTENDS Integers

CONSTANTS
    MaxRouteLifetime,   \* MAX_ROUTE_LIFETIME
    MaxRevision         \* u64::MAX, a value no revision ever takes

ASSUME RouteLedgerAssumption ==
    /\ MaxRouteLifetime \in Nat \ {0}
    /\ MaxRevision \in Nat \ {0}

-----------------------------------------------------------------------------
(* One counter *)

Counter == [high : Nat, id : Nat, conflicted : BOOLEAN]

NewCounter(sequence, id) ==
    [high |-> sequence, id |-> id, conflicted |-> FALSE]

\* How an observation (sequence, id) stands to a counter.
CounterDisposition(counter, sequence, id) ==
    CASE sequence < counter.high -> "stale"
      [] sequence > counter.high -> "advance"
      [] sequence = counter.high /\ counter.conflicted /\ id < counter.id -> "conflict"
      [] sequence = counter.high /\ counter.conflicted /\ id >= counter.id -> "already_conflicted"
      [] sequence = counter.high /\ ~counter.conflicted /\ id # counter.id -> "conflict"
      [] sequence = counter.high /\ ~counter.conflicted /\ id = counter.id -> "idempotent"

Mutates(disposition) == disposition \in {"conflict", "advance"}

MatchesFinal(disposition) == disposition \in {"idempotent", "advance"}

IsConflict(disposition) == disposition \in {"conflict", "already_conflicted"}

\* Keeps the identifier already held when the observation conflicts with it.
FirstIdCounter(counter, sequence, id) ==
    CASE CounterDisposition(counter, sequence, id) = "advance" -> NewCounter(sequence, id)
      [] CounterDisposition(counter, sequence, id) = "conflict" ->
            [counter EXCEPT !.conflicted = TRUE]
      [] OTHER -> counter

NextCounter(counter, sequence, id) ==
    CASE CounterDisposition(counter, sequence, id) = "advance" -> NewCounter(sequence, id)
      [] CounterDisposition(counter, sequence, id) = "conflict" ->
            [high       |-> counter.high,
             id         |-> IF id < counter.id THEN id ELSE counter.id,
             conflicted |-> TRUE]
      [] OTHER -> counter

-----------------------------------------------------------------------------
(* One entry: the product of the two counters, and how long it is kept *)

Horizon(expires, now) ==
    IF expires > now + MaxRouteLifetime THEN expires ELSE now + MaxRouteLifetime

EndpointDisposition(entry, raw) ==
    CounterDisposition(entry.endpoint, raw.endpoint_sequence, raw.delegation)

RouteDisposition(entry, raw) ==
    CounterDisposition(entry.route, raw.sequence, raw.hash)

NewEntry(raw, now) ==
    [endpoint     |-> NewCounter(raw.endpoint_sequence, raw.delegation),
     route        |-> NewCounter(raw.sequence, raw.hash),
     retain_until |-> Horizon(raw.expires, now)]

NextEntry(entry, raw, now) ==
    [endpoint     |-> NextCounter(entry.endpoint, raw.endpoint_sequence, raw.delegation),
     route        |-> NextCounter(entry.route, raw.sequence, raw.hash),
     retain_until |-> IF Horizon(raw.expires, now) > entry.retain_until
                      THEN Horizon(raw.expires, now) ELSE entry.retain_until]

CandidateMatchesFinal(entry, raw) ==
    MatchesFinal(EndpointDisposition(entry, raw)) /\ MatchesFinal(RouteDisposition(entry, raw))

CounterMutates(entry, raw) ==
    Mutates(EndpointDisposition(entry, raw)) \/ Mutates(RouteDisposition(entry, raw))

IsIdempotent(entry, raw) ==
    EndpointDisposition(entry, raw) = "idempotent" /\ RouteDisposition(entry, raw) = "idempotent"

\* The error of a verified record that does not become the live one.
Rejection(entry, raw) ==
    IF IsConflict(EndpointDisposition(entry, raw)) \/ IsConflict(RouteDisposition(entry, raw))
    THEN "conflicting_sequence"
    ELSE "stale_sequence"

Conflicted(entry) == entry.endpoint.conflicted \/ entry.route.conflicted

-----------------------------------------------------------------------------
(* What a counter has to be: a function of the SET of observations *)

\* The counter is the join of a nonempty set of <<sequence, id>> observations.
IsJoin(counter, observed) ==
    /\ \E o \in observed : o[1] = counter.high /\ o[2] = counter.id
    /\ \A o \in observed : o[1] <= counter.high
    /\ \A o \in observed : o[1] = counter.high => counter.id <= o[2]
    /\ counter.conflicted <=> \E o \in observed : o[1] = counter.high /\ o[2] # counter.id
=============================================================================
