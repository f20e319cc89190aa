----------------------------- MODULE OpaqueRelay -----------------------------
(***************************************************************************)
(* OpaqueRelayRuntime of crates/hns-hnsr-protocol/src/circuit.rs: admits   *)
(* opens against confirmed reservations, forwards opaque frames between    *)
(* the two outer connections of a circuit, and keeps every route it        *)
(* returns in `inflight` until the adapter acknowledges the write.         *)
(*                                                                         *)
(* A result can also be the state an error leaves behind: where the code   *)
(* changes something and then fails, the result has no route.  Loops over  *)
(* hash maps run in any order, so such a method has several results.       *)
(***************************************************************************)
EXTENDS HnsrWire, SequencesExt

CONSTANTS
    MaxPending, MaxCircuits, MaxPerPeer,            \* OpaqueRelayConfig
    MaxQueue, MaxBytesPerCircuit, AcceptTimeout,
    MaxInflight, MaxInflightPerCircuit, MaxInflightPerPeer

ASSUME RelayConfig ==
    /\ {MaxPending, MaxCircuits, MaxPerPeer, MaxQueue, MaxBytesPerCircuit} \subseteq Nat \ {0}
    /\ AcceptTimeout \in 1..MaxOpenDeadline
    /\ MaxInflight \in Nat \ {0} /\ MaxInflightPerCircuit \in 2..MaxInflight
    /\ MaxInflightPerPeer \in MaxInflightPerCircuit..MaxInflight

NewRelay(generation, now) ==
    [generation |-> generation, enabled |-> TRUE, time |-> now,
     pending |-> EmptyMap, circuits |-> EmptyMap, usage |-> EmptyMap,
     inflight |-> EmptyMap, next |-> 1, admitted |-> 0, revoked |-> 0]

RelaySnapshot(k) ==
    [generation |-> k.generation, enabled |-> k.enabled, time |-> k.time,
     admitted |-> k.admitted, revoked |-> k.revoked,
     live |-> Cardinality(DOMAIN k.pending) + Cardinality(DOMAIN k.circuits)
                + Cardinality(DOMAIN k.inflight)]

RestoreRelay(snapshot, floor, now) ==
    When(RestoreAllowed(snapshot, floor, now),
         [NewRelay(snapshot.generation + 1, now) EXCEPT
             !.enabled  = snapshot.enabled,
             !.admitted = snapshot.admitted,
             !.revoked  = snapshot.revoked + snapshot.live])

Result(k, out) == [self |-> k, out |-> out]

RelayObservesTime(k, now) == When(now >= k.time, [k EXCEPT !.time = now])

-----------------------------------------------------------------------------
\* The queue of unacknowledged routes.

Action(circuit, to, kind, side, length) ==
    [circuit |-> circuit, to |-> to, kind |-> kind, side |-> side, length |-> length]

HasActionCapacity(k, to, circuit, replacing) ==
    LET retained == {a \in DOMAIN k.inflight :
                        ~replacing \/ k.inflight[a].circuit # circuit}
    IN  /\ Cardinality(retained) < MaxInflight
        /\ Cardinality({a \in retained : k.inflight[a].circuit = circuit})
                < MaxInflightPerCircuit
        /\ Cardinality({a \in retained : k.inflight[a].to = to}) < MaxInflightPerPeer

\* Mutant: the limits are not consulted.
QueueUnbounded(result, action, packet) ==
    LET k  == result.self
        id == [generation |-> k.generation, sequence |-> k.next]
    IN  Result([k EXCEPT !.inflight = Put(@, id, action), !.next = @ + 1],
               Append(result.out, [id |-> id, action |-> action, packet |-> packet]))

\* queue_control, where the caller goes on (or returns its error) when there
\* is no room.
Queue(result, action, packet) ==
    LET k  == result.self
        id == [generation |-> k.generation, sequence |-> k.next]
    IN  IF HasActionCapacity(k, action.to, action.circuit, FALSE)
        THEN Result([k EXCEPT !.inflight = Put(@, id, action), !.next = @ + 1],
                    Append(result.out, [id |-> id, action |-> action, packet |-> packet]))
        ELSE result

QueueClose(result, to, circuit, packet) ==
    Queue(result, Action(circuit, to, "Close", "none", 0), packet)

\* Mutant: the actions of a dead circuit stay.
KeepInflightFor(k, circuit) == k

DropInflightFor(k, circuit) ==
    [k EXCEPT !.inflight = RestrictValues(@, LAMBDA a : a.circuit # circuit)]

DropInflightForPeer(k, peer) ==
    [k EXCEPT !.inflight = RestrictValues(@, LAMBDA a : a.to # peer)]

Parties(c) == {c.requester, c.endpoint}

PeerWork(k, peer) ==
    Cardinality({c \in DOMAIN k.pending : peer \in Parties(k.pending[c])})
        + Cardinality({c \in DOMAIN k.circuits : peer \in Parties(k.circuits[c])})

ReservationWork(k, reservation) ==
    Cardinality({c \in DOMAIN k.pending : k.pending[c].ticket.reservation = reservation})
        + Cardinality({c \in DOMAIN k.circuits : k.circuits[c].reservation = reservation})

-----------------------------------------------------------------------------
\* Revocation.

\* Mutant: the pending open is not counted as revoked.
PendingUncounted(k, circuit) ==
    [DropInflightFor(k, circuit) EXCEPT !.pending = Drop(@, {circuit})]

RemovePending(k, circuit) ==
    [DropInflightFor(k, circuit) EXCEPT !.pending = Drop(@, {circuit}), !.revoked = @ + 1]

RemoveCircuit(k, circuit) ==
    [DropInflightFor(k, circuit) EXCEPT !.circuits = Drop(@, {circuit}), !.revoked = @ + 1]

RevokeCircuit(result, circuit) ==
    IF circuit \notin DOMAIN result.self.circuits THEN result
    ELSE LET c    == result.self.circuits[circuit]
             gone == Result(RemoveCircuit(result.self, circuit), result.out)
         IN  QueueClose(QueueClose(gone, c.requester, circuit, Close(circuit)),
                        c.endpoint, circuit, Close(circuit))

RevokePending(result, circuit) ==
    LET c    == result.self.pending[circuit]
        gone == Result(RemovePending(result.self, circuit), result.out)
    IN  QueueClose(QueueClose(gone, c.requester, circuit, Error(c.context)),
                   c.endpoint, circuit, Close(circuit))

\* One side of a pending open is gone: only the other side is told.
AbandonPending(result, circuit, peer) ==
    LET c    == result.self.pending[circuit]
        gone == Result(RemovePending(result.self, circuit), result.out)
    IN  IF c.requester = peer
        THEN QueueClose(gone, c.endpoint, circuit, Close(circuit))
        ELSE QueueClose(gone, c.requester, circuit, Close(c.context))

\* Loops over hash maps: any order.
Orders(keys) == SetToSeqs(keys)

RevokeEach(result, pending, circuits) ==
    {FoldLeft(RevokeCircuit, FoldLeft(RevokePending, result, ps), cs) :
        ps \in Orders(pending), cs \in Orders(circuits)}

DisconnectPeer(k, peer) ==
    LET pending  == {c \in DOMAIN k.pending : peer \in Parties(k.pending[c])}
        circuits == {c \in DOMAIN k.circuits : peer \in Parties(k.circuits[c])}
        start    == Result(DropInflightForPeer(k, peer), <<>>)
        Abandon(result, circuit) == AbandonPending(result, circuit, peer)
    IN  {FoldLeft(RevokeCircuit, FoldLeft(Abandon, start, ps), cs) :
            ps \in Orders(pending), cs \in Orders(circuits)}

RevokeReservation(k, reservation) ==
    RevokeEach(Result([k EXCEPT !.usage = Drop(@, {reservation})], <<>>),
               {c \in DOMAIN k.pending : k.pending[c].ticket.reservation = reservation},
               {c \in DOMAIN k.circuits : k.circuits[c].reservation = reservation})

ExpireRelay(k, now) ==
    IF now < k.time THEN {}
    ELSE RevokeEach(
            Result([k EXCEPT !.time = now, !.usage = PruneUsage(@, now)], <<>>),
            {c \in DOMAIN k.pending : \/ k.pending[c].deadline <= now
                                      \/ k.pending[c].ticket.expires <= now},
            {c \in DOMAIN k.circuits : k.circuits[c].expires <= now})

\* Mutant: action identifiers restart without a new generation.
SequenceRestarts(k, expected, enabled) ==
    LET changed == [k EXCEPT !.enabled = enabled, !.inflight = EmptyMap, !.next = 1]
    IN  IF expected # k.generation THEN {}
        ELSE IF enabled THEN {Result(changed, <<>>)}
        ELSE RevokeEach(Result(changed, <<>>), DOMAIN k.pending, DOMAIN k.circuits)

\* Every change of enablement starts a new generation of action identifiers.
ReplaceRelayEnabled(k, expected, enabled) ==
    LET changed == [k EXCEPT !.generation = @ + 1, !.enabled = enabled,
                             !.inflight = EmptyMap, !.next = 1]
    IN  IF expected # k.generation THEN {}
        ELSE IF k.enabled = enabled THEN {Result(k, <<>>)}
        ELSE IF enabled THEN {Result(changed, <<>>)}
        ELSE RevokeEach(Result(changed, <<>>), DOMAIN k.pending, DOMAIN k.circuits)

-----------------------------------------------------------------------------
\* acknowledge: the adapter wrote one route, or could not.

\* Mutant: every acknowledgement releases the endpoint's queue.
ReleaseEndpointQueue(k, action) ==
    IF action.kind # "Data" \/ action.circuit \notin DOMAIN k.circuits THEN k
    ELSE [k EXCEPT !.circuits[action.circuit].toEndpoint =
                        IF @ < action.length THEN 0 ELSE @ - action.length]

ReleaseQueue(k, action) ==
    IF action.kind # "Data" \/ action.circuit \notin DOMAIN k.circuits THEN k
    ELSE IF action.side = "requester"
         THEN [k EXCEPT !.circuits[action.circuit].toRequester = @ - action.length]
         ELSE [k EXCEPT !.circuits[action.circuit].toEndpoint = @ - action.length]

Acknowledge(k, id, delivered) ==
    LET action   == k.inflight[id]
        released == ReleaseQueue([k EXCEPT !.inflight = Drop(@, {id})], action)
        done     == Result(released, <<>>)
    IN  IF id.generation # k.generation \/ id \notin DOMAIN k.inflight THEN {}
        ELSE IF delivered \/ action.kind = "Close" THEN {done}
        ELSE IF action.kind = "Incoming"
             THEN IF action.circuit \notin DOMAIN k.pending THEN {done}
                  ELSE LET c == k.pending[action.circuit]
                           gone == [released EXCEPT !.pending = Drop(@, {action.circuit}),
                                                    !.revoked = @ + 1]
                       IN  {QueueClose(Result(gone, <<>>), c.requester, action.circuit,
                                       Error(c.context))}
             ELSE {RevokeCircuit(done, action.circuit)}

-----------------------------------------------------------------------------
\* Packets.  `k` has observed the time of the packet.

\* admit_circuit: the exact current confirmed reservation, as the pool has it.
Admission(pool, ticket, now) ==
    {pool[r] : r \in {x \in DOMAIN pool : pool[x].ticket = ticket /\ ticket.expires > now}}

HandleOpen(k, requester, p, pool, circuit) ==
    LET now == k.time
        room == /\ Cardinality(DOMAIN k.pending) < MaxPending
                /\ Cardinality(DOMAIN k.circuits) < MaxCircuits
                /\ PeerWork(k, requester) < MaxPerPeer
                /\ \A c \in DOMAIN k.pending : \/ k.pending[c].requester # requester
                                               \/ k.pending[c].context # p.context
        Admit(admission) ==
            LET endpoint == admission.source
                ticket   == admission.ticket
                pruned   == [k EXCEPT !.usage = PruneUsage(@, now)]
                touched  == [pruned EXCEPT !.usage = TouchUsage(@, ticket)]
            IN  IF \/ endpoint = requester
                   \/ PeerWork(k, endpoint) >= MaxPerPeer
                   \/ ReservationWork(k, ticket.reservation) >= ticket.maxActive
                   \/ ~HasActionCapacity(k, endpoint, circuit, FALSE)
                THEN Result(pruned, <<>>)
                ELSE IF ~UsageAdmits(touched.usage, ticket) THEN Result(touched, <<>>)
                ELSE Queue(Result([touched EXCEPT
                                !.pending = Put(@, circuit,
                                    [requester |-> requester, endpoint |-> endpoint,
                                     context |-> p.context, ticket |-> ticket,
                                     window |-> p.window,
                                     deadline |-> Smaller(now + AcceptTimeout, ticket.expires)]),
                                !.admitted = @ + 1], <<>>),
                           Action(circuit, endpoint, "Incoming", "none", 0),
                           Incoming(circuit, p.window))
    IN  IF room THEN {Admit(a) : a \in Admission(pool, p.ticket, now)} ELSE {}

HandleAccept(k, endpoint, p) ==
    LET c == k.pending[p.context]
        circuit == [requester |-> c.requester, endpoint |-> c.endpoint,
                    reservation |-> c.ticket.reservation, expires |-> c.ticket.expires,
                    maxBytes |-> Smaller(c.ticket.maxPerCircuit, MaxBytesPerCircuit),
                    maxTotal |-> c.ticket.maxTotal,
                    requesterCredit |-> p.window, endpointCredit |-> p.window,
                    forwarded |-> 0, toRequester |-> 0, toEndpoint |-> 0]
        accepted == [DropInflightFor(k, p.context) EXCEPT
                        !.pending  = Drop(@, {p.context}),
                        !.circuits = Put(@, p.context, circuit)]
    IN  When(/\ p.context \in DOMAIN k.pending
             /\ c.endpoint = endpoint
             /\ c.deadline > k.time /\ c.ticket.expires > k.time
             /\ p.window <= c.window
             /\ Cardinality(DOMAIN k.circuits) < MaxCircuits
             /\ ReservationWork(k, c.ticket.reservation) <= c.ticket.maxActive
             /\ HasActionCapacity(k, c.requester, p.context, TRUE),
             Queue(Result(accepted, <<>>),
                   Action(p.context, c.requester, "Opened", "none", 0),
                   Opened(c.context, p.context, p.window)))

Destination(c, source) == IF source = c.requester THEN c.endpoint ELSE c.requester

\* DATA spends the credit of the side it comes from and fills the other queue.
HandleRelayData(k, source, p) ==
    LET c == k.circuits[p.context]
        charged == [k EXCEPT !.circuits[p.context].forwarded = @ + p.length,
                             !.usage = Charge(@, c.reservation, p.length)]
        Forward(moved, side) ==
            Queue(Result(moved, <<>>),
                  Action(p.context, Destination(c, source), "Data", side, p.length), p)
    IN  IF /\ p.context \in DOMAIN k.circuits
           /\ source \in Parties(c)
           /\ HasActionCapacity(k, Destination(c, source), p.context, FALSE)
           /\ c.reservation \in DOMAIN k.usage
           /\ c.forwarded + p.length <= c.maxBytes
           /\ k.usage[c.reservation].bytes + p.length <= c.maxTotal
        THEN IF source = c.requester
             THEN When(p.length <= c.requesterCredit /\ c.toEndpoint + p.length <= MaxQueue,
                       Forward([charged EXCEPT
                                    !.circuits[p.context].requesterCredit = @ - p.length,
                                    !.circuits[p.context].toEndpoint = @ + p.length],
                               "endpoint"))
             ELSE When(p.length <= c.endpointCredit /\ c.toRequester + p.length <= MaxQueue,
                       Forward([charged EXCEPT
                                    !.circuits[p.context].endpointCredit = @ - p.length,
                                    !.circuits[p.context].toRequester = @ + p.length],
                               "requester"))
        ELSE {}

\* A WINDOW from one side replenishes the credit of the other.
HandleRelayWindow(k, source, p) ==
    LET c == k.circuits[p.context]
        old == IF source = c.requester THEN c.endpointCredit ELSE c.requesterCredit
        granted == IF source = c.requester
                   THEN [k EXCEPT !.circuits[p.context].endpointCredit = @ + p.delta]
                   ELSE [k EXCEPT !.circuits[p.context].requesterCredit = @ + p.delta]
    IN  When(/\ p.context \in DOMAIN k.circuits
             /\ source \in Parties(c)
             /\ HasActionCapacity(k, Destination(c, source), p.context, FALSE)
             /\ old + p.delta <= MaxWindow,
             Queue(Result(granted, <<>>),
                   Action(p.context, Destination(c, source), "Control", "none", 0), p))

\* CLOSE or ERROR: of a pending open by either side's context, else of a
\* circuit.  The state is gone even when there is no room to tell the other.
HandleRelayClose(k, source, p) ==
    LET matched == {c \in DOMAIN k.pending :
                        \/ k.pending[c].requester = source /\ k.pending[c].context = p.context
                        \/ k.pending[c].endpoint = source /\ c = p.context}
        ClosePending(circuit) ==
            LET c == k.pending[circuit]
                gone == Result(RemovePending(k, circuit), <<>>)
            IN  IF c.requester = source
                THEN QueueClose(gone, c.endpoint, circuit, Recontext(p, circuit))
                ELSE QueueClose(gone, c.requester, circuit, Recontext(p, c.context))
    IN  IF matched # {}
        THEN IF Cardinality(matched) > 1 THEN {} ELSE {ClosePending(c) : c \in matched}
        ELSE When(/\ p.context \in DOMAIN k.circuits
                  /\ source \in Parties(k.circuits[p.context]),
                  QueueClose(Result(RemoveCircuit(k, p.context), <<>>),
                             Destination(k.circuits[p.context], source), p.context, p))

RelayAdmits(k, source, p, pool, circuit) ==
    CASE p.op = "Open" -> HandleOpen(k, source, p, pool, circuit)
      [] p.op = "Accept" -> HandleAccept(k, source, p)
      [] p.op = "Data" -> HandleRelayData(k, source, p)
      [] p.op = "Window" -> HandleRelayWindow(k, source, p)
      [] p.op \in {"Close", "Error"} -> HandleRelayClose(k, source, p)
      [] OTHER -> {}

\* handle: `circuit` is the identifier an admitted open draws.
RelayHandles(k, source, p, now, pool, circuit) ==
    LET seen == [k EXCEPT !.time = now]
        next == IF k.enabled /\ WellFormed(p)
                THEN RelayAdmits(seen, source, p, pool, circuit) ELSE {}
    IN  IF now < k.time THEN {Result(k, <<>>)}
        ELSE IF next = {} THEN {Result(seen, <<>>)} ELSE next
=============================================================================
