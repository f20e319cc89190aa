---------------------------- MODULE HnsrRequester ----------------------------
(***************************************************************************)
(* HnsrRequester of crates/hns-hnsr-protocol/src/circuit.rs: opens         *)
(* ticket-bound circuits through a relay and moves opaque frames over them *)
(* under directional credit and byte ceilings.  The byte and open counters *)
(* of the status report are left out, but for the two that account for     *)
(* every open: `admitted` and `revoked`.                                   *)
(***************************************************************************)
EXTENDS HnsrWire

CONSTANTS
    RqMaxCircuits,   \* config.maximum_circuits
    RqMaxQueue,      \* config.maximum_queue_bytes
    RqMaxBytes       \* config.maximum_bytes_per_circuit

ASSUME RequesterConfig ==
    /\ RqMaxCircuits \in Nat \ {0}
    /\ RqMaxQueue \in Nat \ {0}
    /\ RqMaxBytes \in Nat \ {0}

NewRequester(generation, now) ==
    [generation |-> generation, enabled |-> TRUE, time |-> now,
     pending |-> EmptyMap, circuits |-> EmptyMap, usage |-> EmptyMap,
     admitted |-> 0, revoked |-> 0]

RequesterLive(q) == Cardinality(DOMAIN q.pending) + Cardinality(DOMAIN q.circuits)

\* snapshot: settings, counters and the number of live items, never the items.
RequesterSnapshot(q) ==
    [generation |-> q.generation, enabled |-> q.enabled, time |-> q.time,
     admitted |-> q.admitted, revoked |-> q.revoked, live |-> RequesterLive(q)]

\* Mutant: the live items of the snapshot are not counted as revoked.
RestoreForgetsLive(snapshot, floor, now) ==
    When(RestoreAllowed(snapshot, floor, now),
         [NewRequester(snapshot.generation + 1, now) EXCEPT
             !.enabled = snapshot.enabled, !.admitted = snapshot.admitted,
             !.revoked = snapshot.revoked])

RestoreRequester(snapshot, floor, now) ==
    When(RestoreAllowed(snapshot, floor, now),
         [NewRequester(snapshot.generation + 1, now) EXCEPT
             !.enabled  = snapshot.enabled,
             !.admitted = snapshot.admitted,
             !.revoked  = snapshot.revoked + snapshot.live])

RequesterResult(q, out) == [self |-> q, out |-> out]

RequesterObservesTime(q, now) == When(now >= q.time, [q EXCEPT !.time = now])

\* Forget opens and circuits; each one counts as revoked.
ForgetAll(q, contexts, circuits) ==
    [q EXCEPT !.pending  = Drop(@, contexts),
              !.circuits = Drop(@, circuits),
              !.revoked  = @ + Cardinality(contexts \intersect DOMAIN q.pending)
                             + Cardinality(circuits \intersect DOMAIN q.circuits)]

\* replace_enabled: disabling drops everything and says so to the relays.
ReplaceRequesterEnabled(q, expected, enabled) ==
    LET changed == [q EXCEPT !.generation = @ + 1, !.enabled = enabled]
        live == DOMAIN q.pending \union DOMAIN q.circuits
    IN  When(expected = q.generation,
             IF q.enabled = enabled THEN RequesterResult(q, {})
             ELSE IF enabled THEN RequesterResult(changed, {})
             ELSE RequesterResult(ForgetAll(changed, DOMAIN q.pending, DOMAIN q.circuits),
                                  {Close(id) : id \in live}))

-----------------------------------------------------------------------------
\* Opening.

OpenAdmissible(q, ticket, now, deadline, window) ==
    /\ q.enabled
    /\ RequesterLive(q) < RqMaxCircuits
    /\ ValidDeadline(now, deadline)
    /\ window \in Windows
    /\ ticket.expires > deadline

\* begin_open.  A refusal still moves the clock, and once the ticket is
\* admissible the usage entry is kept even when it has no bytes left.
BeginOpen(q, relay, ticket, now, deadline, window, context) ==
    LET seen    == [q EXCEPT !.time = now]
        touched == [seen EXCEPT !.usage = TouchUsage(PruneUsage(@, now), ticket)]
    IN  When(now >= q.time,
             IF ~OpenAdmissible(q, ticket, now, deadline, window)
             THEN RequesterResult(seen, {})
             ELSE IF ~UsageAdmits(touched.usage, ticket)
             THEN RequesterResult(touched, {})
             ELSE RequesterResult(
                    [touched EXCEPT
                        !.pending  = Put(@, context, [relay |-> relay, ticket |-> ticket,
                                                      window |-> window, deadline |-> deadline]),
                        !.admitted = @ + 1],
                    {Open(context, ticket, window)}))

HandleOpened(q, source, p) ==
    When(/\ p.context \in DOMAIN q.pending
         /\ q.pending[p.context].relay = source
         /\ q.pending[p.context].deadline > q.time
         /\ q.pending[p.context].ticket.expires > q.time
         /\ p.window <= q.pending[p.context].window
         /\ p.circuit \notin DOMAIN q.circuits,
         [q EXCEPT !.pending  = Drop(@, {p.context}),
                   !.circuits = Put(@, p.circuit,
                        [relay |-> source, ticket |-> q.pending[p.context].ticket,
                         send |-> p.window, receive |-> p.window,
                         total |-> 0, queued |-> 0, inbound |-> <<>>])])

-----------------------------------------------------------------------------
\* Data and credit.

CircuitCeiling(c) == Smaller(c.ticket.maxPerCircuit, RqMaxBytes)

WithinCeilings(q, c, length) ==
    /\ c.ticket.reservation \in DOMAIN q.usage
    /\ c.total + length <= CircuitCeiling(c)
    /\ q.usage[c.ticket.reservation].bytes + length <= c.ticket.maxTotal

SendData(q, circuit, length, tag) ==
    LET c == q.circuits[circuit]
    IN  When(/\ q.enabled
             /\ circuit \in DOMAIN q.circuits
             /\ length \in 1..MaxDataSize
             /\ WithinCeilings(q, c, length)
             /\ length <= c.send,
             RequesterResult(
                [q EXCEPT !.circuits[circuit].send  = @ - length,
                          !.circuits[circuit].total = @ + length,
                          !.usage = Charge(@, c.ticket.reservation, length)],
                {Data(circuit, length, tag)}))

\* Mutant: inbound data is not charged to the reservation.
DataUncharged(q, source, p) ==
    LET c == q.circuits[p.context]
    IN  When(/\ p.context \in DOMAIN q.circuits
             /\ c.relay = source
             /\ WithinCeilings(q, c, p.length)
             /\ p.length <= c.receive
             /\ c.queued + p.length <= RqMaxQueue,
             [q EXCEPT !.circuits[p.context].receive = @ - p.length,
                       !.circuits[p.context].total   = @ + p.length,
                       !.circuits[p.context].queued  = @ + p.length,
                       !.circuits[p.context].inbound =
                            Append(@, [length |-> p.length, tag |-> p.tag])])

\* Mutant: inbound data does not spend receive credit.
DataUncredited(q, source, p) ==
    LET c == q.circuits[p.context]
    IN  When(/\ p.context \in DOMAIN q.circuits
             /\ c.relay = source
             /\ WithinCeilings(q, c, p.length)
             /\ p.length <= c.receive
             /\ c.queued + p.length <= RqMaxQueue,
             [q EXCEPT !.circuits[p.context].total   = @ + p.length,
                       !.circuits[p.context].queued  = @ + p.length,
                       !.circuits[p.context].inbound =
                            Append(@, [length |-> p.length, tag |-> p.tag]),
                       !.usage = Charge(@, c.ticket.reservation, p.length)])

HandleData(q, source, p) ==
    LET c == q.circuits[p.context]
    IN  When(/\ p.context \in DOMAIN q.circuits
             /\ c.relay = source
             /\ WithinCeilings(q, c, p.length)
             /\ p.length <= c.receive
             /\ c.queued + p.length <= RqMaxQueue,
             [q EXCEPT !.circuits[p.context].receive = @ - p.length,
                       !.circuits[p.context].total   = @ + p.length,
                       !.circuits[p.context].queued  = @ + p.length,
                       !.circuits[p.context].inbound =
                            Append(@, [length |-> p.length, tag |-> p.tag]),
                       !.usage = Charge(@, c.ticket.reservation, p.length)])

\* take_data removes the frame before it checks the credit: when the check
\* fails the frame is gone and no WINDOW is sent.
TakeData(q, circuit) ==
    LET c      == q.circuits[circuit]
        length == Head(c.inbound).length
        taken  == [q EXCEPT !.circuits[circuit].inbound = Tail(@),
                            !.circuits[circuit].queued  = @ - length]
    IN  When(q.enabled /\ circuit \in DOMAIN q.circuits /\ c.inbound # <<>>,
             IF c.receive + length <= MaxWindow
             THEN RequesterResult([taken EXCEPT !.circuits[circuit].receive = @ + length],
                                  {Window(circuit, length)})
             ELSE RequesterResult(taken, {}))

HandleWindow(q, source, p) ==
    When(/\ p.context \in DOMAIN q.circuits
         /\ q.circuits[p.context].relay = source
         /\ q.circuits[p.context].send + p.delta <= MaxWindow,
         [q EXCEPT !.circuits[p.context].send = @ + p.delta])

-----------------------------------------------------------------------------
\* Ends of circuits.

CloseCircuit(q, circuit) ==
    When(circuit \in DOMAIN q.circuits,
         RequesterResult(ForgetAll(q, {}, {circuit}), {Close(circuit)}))

CancelOpen(q, context) ==
    When(context \in DOMAIN q.pending,
         RequesterResult(ForgetAll(q, {context}, {}), {Close(context)}))

\* handle_close and handle_error: a pending open is looked for first.
HandleEnd(q, source, p) ==
    IF p.context \in DOMAIN q.pending
    THEN When(q.pending[p.context].relay = source, ForgetAll(q, {p.context}, {}))
    ELSE When(p.context \in DOMAIN q.circuits /\ q.circuits[p.context].relay = source,
              ForgetAll(q, {}, {p.context}))

DisconnectRelay(q, relay) ==
    ForgetAll(q, {c \in DOMAIN q.pending : q.pending[c].relay = relay},
                 {c \in DOMAIN q.circuits : q.circuits[c].relay = relay})

ExpireRequester(q, now) ==
    When(now >= q.time,
         ForgetAll([q EXCEPT !.time = now, !.usage = PruneUsage(@, now)],
                   {c \in DOMAIN q.pending : \/ q.pending[c].deadline <= now
                                             \/ q.pending[c].ticket.expires <= now},
                   {c \in DOMAIN q.circuits : q.circuits[c].ticket.expires <= now}))

-----------------------------------------------------------------------------
\* handle: one packet from a relay.  A refused packet still moves the clock.

RequesterAdmits(q, source, p) ==
    CASE p.op = "Opened" -> HandleOpened(q, source, p)
      [] p.op = "Data" -> HandleData(q, source, p)
      [] p.op = "Window" -> HandleWindow(q, source, p)
      [] p.op \in {"Close", "Error"} -> HandleEnd(q, source, p)
      [] OTHER -> {}

RequesterHandles(q, source, p, now) ==
    LET seen == [q EXCEPT !.time = now]
        next == IF q.enabled /\ WellFormed(p) THEN RequesterAdmits(seen, source, p) ELSE {}
    IN  IF now < q.time THEN {q} ELSE IF next = {} THEN {seen} ELSE next
=============================================================================
