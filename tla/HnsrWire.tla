------------------------------ MODULE HnsrWire ------------------------------
(***************************************************************************)
(* What the circuit requester and the opaque relay of hns-hnsr-protocol    *)
(* have in common: relay tickets, circuit-plane packets, and the byte      *)
(* accounting of one reservation.  Signatures, keys, nonces, profiles and  *)
(* addresses are valid and left out; lengths and credits are small         *)
(* numbers; a frame is its length and a tag.  A 64-bit random identifier   *)
(* is a number nobody has drawn before.                                    *)
(*                                                                         *)
(* A method of the code is the set of results it can return: the new state *)
(* of the object (`self`) and the routes handed to the adapter (`out`), or *)
(* the empty set where the code returns an error and changes nothing.      *)
(***************************************************************************)
EXTENDS Naturals, Sequences, FiniteSets, Functions, FiniteSetsExt

CONSTANTS
    Tickets,          \* [reservation, expires, maxActive, maxPerCircuit, maxTotal]
    MinWindow, MaxWindow, MaxDataSize,
    MaxOpenDeadline   \* MAX_OPEN_DEADLINE_SECONDS

ASSUME WireAssumption ==
    /\ MinWindow \in Nat \ {0} /\ MaxWindow \in Nat /\ MinWindow <= MaxWindow
    /\ MaxDataSize \in Nat \ {0}
    /\ MaxOpenDeadline \in Nat \ {0}

-----------------------------------------------------------------------------
\* Hash maps.

EmptyMap == [k \in {} |-> k]

Put(map, key, value) ==
    [k \in DOMAIN map \union {key} |-> IF k = key THEN value ELSE map[k]]

Drop(map, keys) == Restrict(map, DOMAIN map \ keys)

When(guard, result) == IF guard THEN {result} ELSE {}

Smaller(m, n) == IF m <= n THEN m ELSE n

-----------------------------------------------------------------------------
\* Packets.  `context` is the requester's open context or the circuit.

Windows == MinWindow..MaxWindow

Open(context, ticket, window) ==
    [op |-> "Open", context |-> context, ticket |-> ticket, window |-> window]
Incoming(circuit, window) == [op |-> "Incoming", context |-> circuit, window |-> window]
Accept(circuit, window) == [op |-> "Accept", context |-> circuit, window |-> window]
Opened(context, circuit, window) ==
    [op |-> "Opened", context |-> context, circuit |-> circuit, window |-> window]
Data(circuit, length, tag) ==
    [op |-> "Data", context |-> circuit, length |-> length, tag |-> tag]
Window(circuit, delta) == [op |-> "Window", context |-> circuit, delta |-> delta]
Close(context) == [op |-> "Close", context |-> context]
Error(context) == [op |-> "Error", context |-> context]

\* recontext_packet: a close or an error under the other side's context.
Recontext(packet, context) == [packet EXCEPT !.context = context]

\* What the body decoders admit.
WellFormed(p) ==
    /\ p.op \in {"Open", "Incoming", "Accept", "Opened"} => p.window \in Windows
    /\ p.op = "Data" => p.length \in 1..MaxDataSize
    /\ p.op = "Window" => p.delta \in 1..MaxWindow

-----------------------------------------------------------------------------
\* ReservationUsage: bytes carried under one reservation until it expires.

\* Mutant: an entry is dropped one second early.
PruneEarly(usage, now) == RestrictValues(usage, LAMBDA u : u.expires > now + 1)

PruneUsage(usage, now) == RestrictValues(usage, LAMBDA u : u.expires > now)

\* entry(reservation).or_insert(no bytes yet)
TouchUsage(usage, ticket) ==
    IF ticket.reservation \in DOMAIN usage THEN usage
    ELSE Put(usage, ticket.reservation, [bytes |-> 0, expires |-> ticket.expires])

UsageAdmits(usage, ticket) ==
    /\ usage[ticket.reservation].expires = ticket.expires
    /\ usage[ticket.reservation].bytes < ticket.maxTotal

Charge(usage, reservation, length) == [usage EXCEPT ![reservation].bytes = @ + length]

ValidDeadline(now, deadline) == deadline > now /\ deadline - now <= MaxOpenDeadline

\* Mutant: the generation floor is not compared.
RestoreIgnoresFloor(snapshot, floor, now) == floor > 0 /\ now >= snapshot.time

\* validate_restore_guard
RestoreAllowed(snapshot, floor, now) ==
    /\ floor > 0
    /\ snapshot.generation >= floor
    /\ now >= snapshot.time
=============================================================================
