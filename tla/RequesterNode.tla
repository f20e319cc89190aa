---------------------------- MODULE RequesterNode ----------------------------
(***************************************************************************)
(* One HnsrRequester in a process that drives it: the application opens,   *)
(* sends, reads and closes; relays send any packet at any time; the clock  *)
(* passed in may be wrong; the process stores snapshots and restarts from  *)
(* any of them, also from an old one.  The process also keeps the floor    *)
(* that restore takes as minimum_generation.                               *)
(***************************************************************************)
EXTENDS HnsrRequester

CONSTANTS
    Relays, Contexts, Circuits, Lengths,
    FloorWithSnapshots,   \* is the floor advanced with every snapshot, or only,
                          \* as restore's comment asks, when the policy changes?
    Bounds                \* sets of bounds: [time, opens, generation, snapshots]

ASSUME FloorContract == FloorWithSnapshots \in BOOLEAN

VARIABLES
    bounds,      \* the bounds of this behaviour
    requester,
    snapshots,   \* every snapshot ever stored; storage may return any of them
    floor,       \* minimum_generation, held by the caller
    policy       \* the enablement last chosen

vars == <<bounds, requester, snapshots, floor, policy>>

Times == 0..bounds.time

RelayPackets ==
    {Opened(c, k, w) : c \in Contexts, k \in Circuits, w \in Windows}
        \union {Data(k, n, 0) : k \in Circuits, n \in Lengths}
        \union {Window(k, d) : k \in Circuits, d \in Lengths}
        \union {Close(i) : i \in Contexts \union Circuits}
        \union {Error(i) : i \in Contexts \union Circuits}

Init ==
    /\ bounds \in Bounds
    /\ requester = NewRequester(1, 0)
    /\ snapshots = {}
    /\ floor = 1
    /\ policy = TRUE

-----------------------------------------------------------------------------
Becomes(results) == /\ \E result \in results : requester' = result.self
                    /\ UNCHANGED <<bounds, snapshots, floor, policy>>

BecomesState(states) == /\ requester' \in states
                        /\ UNCHANGED <<bounds, snapshots, floor, policy>>

OpenStep ==
    \E relay \in Relays, ticket \in Tickets, now \in Times, window \in Windows :
        \E deadline \in (now + 1)..(now + MaxOpenDeadline) :
            \E context \in Contexts \ DOMAIN requester.pending :
                /\ requester.admitted < bounds.opens
                /\ Becomes(BeginOpen(requester, relay, ticket, now, deadline, window, context))

ReceiveStep ==
    \E relay \in Relays, p \in RelayPackets, now \in Times :
        BecomesState(RequesterHandles(requester, relay, p, now))

SendStep ==
    \E k \in DOMAIN requester.circuits, n \in Lengths : Becomes(SendData(requester, k, n, 0))

TakeStep == \E k \in DOMAIN requester.circuits : Becomes(TakeData(requester, k))

CloseStep == \E k \in DOMAIN requester.circuits : Becomes(CloseCircuit(requester, k))

CancelStep == \E c \in DOMAIN requester.pending : Becomes(CancelOpen(requester, c))

DisconnectStep == \E relay \in Relays : BecomesState({DisconnectRelay(requester, relay)})

ExpireStep == \E now \in Times : BecomesState(ExpireRequester(requester, now))

ObserveTimeStep == \E now \in Times : BecomesState(RequesterObservesTime(requester, now))

SaveStep ==
    /\ Cardinality(snapshots) < bounds.snapshots
    /\ snapshots' = snapshots \union {RequesterSnapshot(requester)}
    /\ floor' = IF FloorWithSnapshots THEN requester.generation ELSE floor
    /\ UNCHANGED <<bounds, requester, policy>>

\* The policy change, the snapshot that holds it and the floor are one
\* durable step of the caller.
PolicyStep ==
    /\ requester.generation < bounds.generation
    /\ \E result \in ReplaceRequesterEnabled(requester, requester.generation, ~requester.enabled) :
            /\ requester' = result.self
            /\ snapshots' = snapshots \union {RequesterSnapshot(result.self)}
            /\ floor' = result.self.generation
            /\ policy' = result.self.enabled
            /\ UNCHANGED bounds

RestartStep ==
    /\ requester.generation < bounds.generation
    /\ \E snapshot \in snapshots, now \in Times :
            BecomesState(RestoreRequester(snapshot, floor, now))

Next ==
    \/ OpenStep
    \/ ReceiveStep
    \/ SendStep
    \/ TakeStep
    \/ CloseStep
    \/ CancelStep
    \/ DisconnectStep
    \/ ExpireStep
    \/ ObserveTimeStep
    \/ SaveStep
    \/ PolicyStep
    \/ RestartStep

Spec == Init /\ [][Next]_vars

-----------------------------------------------------------------------------
\* Properties.

SumOver(Value(_), keys) == MapThenSumSet(Value, keys)

\* The buffered bytes are exactly the frames not yet read, and reading any of
\* them fits into the credit: take_data never fails after it has removed the
\* frame, whatever DATA and WINDOW packets a relay sends.
ReceiveCreditIsKept ==
    \A k \in DOMAIN requester.circuits :
        LET c == requester.circuits[k]
        IN  /\ c.queued = SumOver(LAMBDA i : c.inbound[i].length, DOMAIN c.inbound)
            /\ c.receive + c.queued <= MaxWindow

\* Byte ceilings: a circuit never carries more than its signed and its local
\* ceiling, and the circuits of one reservation together never more than was
\* charged to it, which is at most the signed total (send_data, handle_data).
\* These are the circuits whose ticket expires with the usage entry: an entry
\* pruned under a circuit that outlives it starts the charge anew.
\* No credit, however it was granted or returned, leaves the window range.
CeilingsHold ==
    /\ \A k \in DOMAIN requester.circuits :
            /\ requester.circuits[k].total <= CircuitCeiling(requester.circuits[k])
            /\ requester.circuits[k].send \in 0..MaxWindow
    /\ \A r \in DOMAIN requester.usage :
            LET u == requester.usage[r]
                mine == {k \in DOMAIN requester.circuits :
                            /\ requester.circuits[k].ticket.reservation = r
                            /\ requester.circuits[k].ticket.expires = u.expires}
            IN  /\ SumOver(LAMBDA k : requester.circuits[k].total, mine) <= u.bytes
                /\ \A k \in mine : u.bytes <= requester.circuits[k].ticket.maxTotal

\* Every admitted open is pending, established or counted as revoked exactly
\* once, through every way a circuit can end and across restarts.
OpensAreAccounted ==
    requester.admitted = RequesterLive(requester) + requester.revoked

\* An opt-out survives: the enablement in force is the one last chosen, even
\* after a restart from an old snapshot (minimum_generation), and a disabled
\* requester holds no circuit at all.  restore starts a new generation without
\* moving the floor, so the floor has to follow every stored snapshot.
OptOutHolds ==
    /\ requester.enabled = policy
    /\ ~policy => RequesterLive(requester) = 0
=============================================================================
