------------------------------ MODULE RelayNode ------------------------------
(***************************************************************************)
(* One OpaqueRelayRuntime in its process.  Peers send any circuit packet   *)
(* at any time; the adapter writes the routes it was given and reports     *)
(* each write once, in any order, late, or never; reservations come and go *)
(* as ReservationPool lets them; the process stores snapshots, each with   *)
(* the generation floor it sets, and restarts from any of them, with an    *)
(* empty reservation plane.                                                *)
(***************************************************************************)
EXTENDS OpaqueRelay

CONSTANTS
    Peers, Contexts, Circuits, Lengths, Grants,
    Bounds    \* sets of bounds: [time, opens, sequence, generation, snapshots]

VARIABLES
    bounds,             \* the bounds of this behaviour
    relay,
    pool, spent,        \* the reservation plane
    writes,             \* routes the adapter has and has not reported
    carried,            \* history: bytes forwarded under each reservation
    lost,               \* history: writes that restores counted as revoked
    snapshots,          \* every snapshot ever stored, with the value of `lost`
                        \* that a restart from it leads to
    floor,              \* minimum_generation, held by the caller
    policy              \* the enablement last chosen

durable == <<bounds, snapshots, floor, policy>>
vars == <<relay, pool, spent, writes, carried, lost, durable>>

Reservations == INSTANCE ReservationPool

Times == 0..bounds.time

PeerPackets ==
    {Open(c, t, w) : c \in Contexts, t \in Tickets, w \in Windows}
        \union {Accept(k, w) : k \in DOMAIN relay.pending, w \in Windows}
        \union {Data(k, n, 0) : k \in DOMAIN relay.circuits, n \in Lengths}
        \union {Window(k, d) : k \in DOMAIN relay.circuits, d \in Lengths}
        \union {Close(i) : i \in Contexts \union Circuits}

Init ==
    /\ bounds \in Bounds
    /\ relay = NewRelay(1, 0)
    /\ Reservations!PoolInit
    /\ writes = {}
    /\ carried = [r \in {t.reservation : t \in Tickets} |-> 0]
    /\ lost = 0
    /\ snapshots = {}
    /\ floor = 1
    /\ policy = TRUE

-----------------------------------------------------------------------------
DataBytes(out, r, before) ==
    MapThenSumSet(LAMBDA i : out[i].action.length,
        {i \in DOMAIN out : /\ out[i].action.kind = "Data"
                            /\ before.circuits[out[i].action.circuit].reservation = r})

\* The adapter takes the routes of a call.
Becomes(results) ==
    \E result \in results :
        /\ result.self.next <= bounds.sequence
        /\ relay' = result.self
        /\ writes' = writes \union Range(result.out)
        /\ carried' = [r \in DOMAIN carried |-> carried[r] + DataBytes(result.out, r, relay)]
        /\ UNCHANGED <<pool, spent, lost, durable>>

\* An identifier is drawn once.
FreshCircuits ==
    {k \in Circuits : /\ k \notin DOMAIN relay.pending \union DOMAIN relay.circuits
                      /\ \A w \in writes : w.action.circuit # k}

HandleStep ==
    \E peer \in Peers, p \in PeerPackets, now \in Times :
        \E circuit \in IF p.op = "Open" THEN FreshCircuits ELSE {p.context} :
            /\ p.op = "Open" => relay.admitted < bounds.opens
            /\ Becomes(RelayHandles(relay, peer, p, now, pool, circuit))

AcknowledgeStep ==
    \E w \in writes, delivered \in BOOLEAN :
        LET results == Acknowledge(relay, w.id, delivered)
        IN  \/ /\ results = {}
               /\ writes' = writes \ {w}
               /\ UNCHANGED <<relay, pool, spent, carried, lost, durable>>
            \/ \E result \in results :
                  /\ result.self.next <= bounds.sequence
                  /\ relay' = result.self
                  /\ writes' = (writes \ {w}) \union Range(result.out)
                  /\ UNCHANGED <<pool, spent, carried, lost, durable>>

DisconnectStep == \E peer \in Peers : Becomes(DisconnectPeer(relay, peer))

ExpireStep == \E now \in Times : Becomes(ExpireRelay(relay, now))

ObserveTimeStep ==
    \E now \in Times :
        Becomes({Result(k, <<>>) : k \in RelayObservesTime(relay, now)})

\* The embedding revokes what it removed from the reservation plane, later.
RevokeStep == \E r \in spent \ DOMAIN pool : Becomes(RevokeReservation(relay, r))

GrantStep ==
    /\ \E grant \in Grants : Reservations!Grant(grant)
    /\ UNCHANGED <<relay, writes, carried, lost, durable>>

RemoveStep ==
    /\ \E r \in DOMAIN pool : Reservations!Remove({r})
    /\ UNCHANGED <<relay, writes, carried, lost, durable>>

Stored(k) == [settings |-> RelaySnapshot(k), lost |-> lost + Cardinality(DOMAIN k.inflight)]

\* A snapshot and the floor it sets are one durable step of the caller.
SaveStep ==
    /\ Cardinality(snapshots) < bounds.snapshots
    /\ snapshots' = snapshots \union {Stored(relay)}
    /\ floor' = relay.generation
    /\ UNCHANGED <<bounds, relay, pool, spent, writes, carried, lost, policy>>

\* So is a policy change, with the snapshot that holds it.
PolicyStep ==
    /\ relay.generation < bounds.generation
    /\ \E result \in ReplaceRelayEnabled(relay, relay.generation, ~relay.enabled) :
            /\ result.self.next <= bounds.sequence
            /\ relay' = result.self
            /\ writes' = writes \union Range(result.out)
            /\ snapshots' = snapshots \union {Stored(result.self)}
            /\ floor' = result.self.generation
            /\ policy' = result.self.enabled
            /\ UNCHANGED <<bounds, pool, spent, carried, lost>>

RestartStep ==
    /\ relay.generation < bounds.generation
    /\ \E snapshot \in snapshots, now \in Times :
            /\ relay' \in RestoreRelay(snapshot.settings, floor, now)
            /\ lost' = snapshot.lost
    /\ pool' = EmptyMap
    /\ writes' = {}
    /\ UNCHANGED <<spent, carried, durable>>

Next ==
    \/ HandleStep
    \/ AcknowledgeStep
    \/ DisconnectStep
    \/ ExpireStep
    \/ ObserveTimeStep
    \/ RevokeStep
    \/ GrantStep
    \/ RemoveStep
    \/ SaveStep
    \/ PolicyStep
    \/ RestartStep

Spec == Init /\ [][Next]_vars

-----------------------------------------------------------------------------
\* Properties.

\* The byte counters of a circuit are exactly its unacknowledged DATA writes
\* in each direction, so acknowledge never saturates and a delivered write
\* always gives its room back (handle_data, acknowledge, disconnect).
QueueAccounting ==
    \A k \in DOMAIN relay.circuits :
        LET Queued(side) ==
                MapThenSumSet(LAMBDA a : relay.inflight[a].length,
                    {a \in DOMAIN relay.inflight : /\ relay.inflight[a].circuit = k
                                                   /\ relay.inflight[a].kind = "Data"
                                                   /\ relay.inflight[a].side = side})
        IN  /\ relay.circuits[k].toRequester = Queued("requester")
            /\ relay.circuits[k].toEndpoint = Queued("endpoint")

\* An acknowledgement reaches the very write it is for, never a later one
\* that got the same identifier; and every action the relay counts against
\* its limits is a write the adapter still has to report.
AcksAreExact ==
    /\ \A w \in writes : w.id \in DOMAIN relay.inflight => relay.inflight[w.id] = w.action
    /\ DOMAIN relay.inflight \subseteq {w.id : w \in writes}

\* No action outlives its circuit: an INCOMING belongs to a pending open, an
\* OPENED, DATA or WINDOW to an established circuit, so a failed write always
\* has something to revoke and a dead circuit holds no queue slot but its own
\* closures (drop_inflight_for in every way a circuit ends).
NoOrphanActions ==
    \A a \in DOMAIN relay.inflight :
        LET action == relay.inflight[a]
        IN  /\ action.kind = "Incoming" => action.circuit \in DOMAIN relay.pending
            /\ action.kind \in {"Opened", "Data", "Control"} =>
                    /\ action.circuit \in DOMAIN relay.circuits
                    /\ action.to \in Parties(relay.circuits[action.circuit])

\* Whatever opens, closes, failed writes, expiries and revocations happen in
\* between, the bytes forwarded under one reservation stay within its signed
\* total, and its opens and circuits within its signed number.
SignedLimitsHold ==
    \A ticket \in Tickets :
        /\ carried[ticket.reservation] <= ticket.maxTotal
        /\ ReservationWork(relay, ticket.reservation) <= ticket.maxActive

\* Capacity limits hold over all the ways to queue: total, per circuit and
\* per destination, and the work of one peer; and no credit, however it was
\* granted or returned, leaves the window range.
CapacityHolds ==
    /\ \A k \in DOMAIN relay.circuits :
            /\ relay.circuits[k].requesterCredit \in 0..MaxWindow
            /\ relay.circuits[k].endpointCredit \in 0..MaxWindow
    /\ Cardinality(DOMAIN relay.inflight) <= MaxInflight
    /\ \A k \in Circuits :
            Cardinality({a \in DOMAIN relay.inflight : relay.inflight[a].circuit = k})
                <= MaxInflightPerCircuit
    /\ \A peer \in Peers :
            /\ Cardinality({a \in DOMAIN relay.inflight : relay.inflight[a].to = peer})
                <= MaxInflightPerPeer
            /\ PeerWork(relay, peer) <= MaxPerPeer

\* Every admitted open is pending, established or counted as revoked exactly
\* once, whatever ends it: close, timeout, expiry, a failed write, revocation, a
\* disconnect, a restart.  A restart also counts each lost write as revoked.
OpensAreAccounted ==
    relay.admitted + lost = Cardinality(DOMAIN relay.pending)
                              + Cardinality(DOMAIN relay.circuits) + relay.revoked

\* An opt-out survives: the enablement in force is the one last chosen, even
\* after a restart from an old snapshot (minimum_generation), and a disabled
\* relay has no circuit and no pending open, only closures to deliver.
OptOutHolds ==
    /\ relay.enabled = policy
    /\ ~policy => /\ DOMAIN relay.pending = {} /\ DOMAIN relay.circuits = {}
                  /\ \A a \in DOMAIN relay.inflight : relay.inflight[a].kind = "Close"
=============================================================================
