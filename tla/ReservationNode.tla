--------------------------- MODULE ReservationNode ---------------------------
(***************************************************************************)
(* A RelayService and the endpoints that reserve at it.  Packets between   *)
(* an endpoint's outer connection and the relay can be lost, delayed,      *)
(* duplicated and reordered; the two clocks need not agree or advance; a   *)
(* connection may drop.  An endpoint may also confirm with a signature     *)
(* that does not verify.                                                   *)
(***************************************************************************)
EXTENDS RelayReservations

CONSTANTS
    Sources, Contexts, ReservationIds,
    Settings,   \* what a behaviour is made of: [limits (RelayLimits), requests,
                \* packets (a bound on what is in the network)]
    MaxTime     \* bound

ASSUME SettingsAreValid == \A s \in Settings : ValidLimits(s.limits)

VARIABLES
    setting,    \* the setting of this behaviour
    service,
    drawn,      \* reservation identifiers drawn so far
    network,    \* packets in either direction, [source, to, packet]
    signed,     \* tickets each endpoint confirmed
    accepted,   \* tickets each endpoint holds as confirmed by the relay
    usableOnce  \* history: reservations that were ever usable

vars == <<setting, service, drawn, network, signed, accepted, usableOnce>>

Times == 0..MaxTime

Message(source, to, packet) == [source |-> source, to |-> to, packet |-> packet]

\* Each endpoint uses its connection name as its key.
Key(source) == source

Init ==
    /\ setting \in Settings
    /\ service = NewService(setting.limits)
    /\ drawn = {}
    /\ network = {}
    /\ signed = [s \in Sources |-> {}]
    /\ accepted = [s \in Sources |-> {}]
    /\ usableOnce = {}

-----------------------------------------------------------------------------
\* The endpoint.

Send(source, packet) ==
    /\ Cardinality(network) < setting.packets
    /\ network' = network \union {Message(source, "relay", packet)}

ReserveStep ==
    \E source \in Sources, context \in Contexts, request \in setting.requests :
        /\ request.key = Key(source)
        /\ Send(source, Reserve(context, request))
        /\ UNCHANGED <<setting, service, drawn, signed, accepted, usableOnce>>

RenewStep ==
    \E source \in Sources, context \in Contexts, request \in setting.requests :
        \E ticket \in accepted[source] :
            /\ request.key = Key(source)
            /\ Send(source, Renew(context, request, ticket.reservation))
            /\ UNCHANGED <<setting, service, drawn, signed, accepted, usableOnce>>

ConfirmStep ==
    \E source \in Sources, now \in Times :
        \E m \in {x \in network : x.source = source /\ x.to = "endpoint"} :
            \E result \in ConfirmOffer(Key(source), m.packet, now) :
                /\ Send(source, result.packet)
                /\ signed' = [signed EXCEPT ![source] = @ \union {result.ticket}]
                /\ UNCHANGED <<setting, service, drawn, accepted, usableOnce>>

\* A confirmation under a key that is not the ticket's.
WrongConfirmStep ==
    \E source \in Sources :
        \E m \in {x \in network : x.source = source /\ x.packet.op = "Offer"} :
            /\ Send(source, Confirm(m.packet.context, m.packet.ticket.reservation, "wrong"))
            /\ UNCHANGED <<setting, service, drawn, signed, accepted, usableOnce>>

AcceptStep ==
    \E source \in Sources :
        \E m \in {x \in network : x.source = source /\ x.to = "endpoint"} :
            \E mine \in signed[source] :
                \E ticket \in AcceptConfirmation(m.packet, mine) :
                    /\ accepted' = [accepted EXCEPT ![source] = @ \union {ticket}]
                    /\ UNCHANGED <<setting, service, drawn, network, signed, usableOnce>>

\* An endpoint may withdraw what it signed before the relay confirms it, and a
\* reservation whose confirmation failed.
WithdrawStep ==
    \E source \in Sources, context \in Contexts :
        /\ \/ \E ticket \in signed[source] : Send(source, Withdraw(context, ticket, "valid"))
           \/ \E m \in {x \in network : x.source = source /\ x.packet.op = "Offer"} :
                    Send(source, Withdraw(context, m.packet.ticket, "wrong"))
        /\ UNCHANGED <<setting, service, drawn, signed, accepted, usableOnce>>

\* The reservations under which admit_circuit can admit an open.
UsableIn(s) ==
    {r \in DOMAIN s.table :
        \E now \in Times : AdmitCircuit(s, r, s.table[r].ticket, now) # {}}

Usable == UsableIn(service)

-----------------------------------------------------------------------------
\* The relay.

HandleStep ==
    \E m \in {x \in network : x.to = "relay"}, now \in Times :
        \E fresh \in IF m.packet.op \in {"Reserve", "Renew"}
                     THEN ReservationIds \ drawn ELSE {NoReservation} :
            \E result \in ServiceHandles(service, m.packet, m.source, now, fresh) :
                /\ service' = result.self
                /\ drawn' = drawn \union DOMAIN result.self.table
                /\ network' = network \union
                                {Message(m.source, "endpoint", p) : p \in result.out}
                /\ usableOnce' = usableOnce \union UsableIn(result.self)
                /\ UNCHANGED <<setting, signed, accepted>>

PruneStep ==
    \E now \in Times : /\ service' = Prune(service, now)
                       /\ UNCHANGED <<setting, drawn, network, signed, accepted, usableOnce>>

DisconnectStep ==
    \E source \in Sources :
        /\ service' = DisconnectSource(service, source).self
        /\ network' = {m \in network : m.source # source}
        /\ UNCHANGED <<setting, drawn, signed, accepted, usableOnce>>

Next ==
    \/ ReserveStep
    \/ RenewStep
    \/ ConfirmStep
    \/ WrongConfirmStep
    \/ AcceptStep
    \/ WithdrawStep
    \/ HandleStep
    \/ PruneStep
    \/ DisconnectStep

Spec == Init /\ [][Next]_vars

-----------------------------------------------------------------------------
\* Properties.

\* source_counts is the exact number of reservations of every source, with no
\* empty entries, and both capacity limits hold: removal by replacement,
\* withdrawal, expiry and disconnection all return their slot, and a duplicated
\* request never takes a second one: nonces under one key differ.
CountsAreExact ==
    /\ \A source \in Sources :
            Count(service, source) =
                Cardinality({r \in DOMAIN service.table : service.table[r].source = source})
    /\ \A source \in DOMAIN service.counts : service.counts[source] \in 1..setting.limits.perSource
    /\ Cardinality(DOMAIN service.table) <= setting.limits.reservations
    /\ \A r, t \in DOMAIN service.table :
            /\ service.table[r].ticket.key = service.table[t].ticket.key
            /\ service.table[r].nonce = service.table[t].nonce
            => r = t

\* A usable reservation was confirmed by the endpoint whose key and whose
\* connection it names, although the table also keeps signatures that failed.
UsableWasSigned ==
    \A r \in Usable :
        LET entry == service.table[r]
        IN  /\ entry.ticket \in signed[entry.source]
            /\ entry.ticket.key = Key(entry.source)

\* A confirmation the endpoint accepted is good: while the relay still has
\* the reservation it is usable under that very ticket, however late or often
\* the packets arrived and whatever the clocks said in between.  A confirmation
\* accepted after the relay pruned the reservation promises nothing.
AcceptedIsUsable ==
    \A source \in Sources :
        \A ticket \in accepted[source] :
            ticket.reservation \in DOMAIN service.table =>
                /\ service.table[ticket.reservation].ticket = ticket
                /\ \A now \in ticket.issued..(ticket.expires - 1) :
                        AdmitCircuit(service, ticket.reservation, ticket, now) # {}

\* Once the endpoint has accepted a renewal, the reservation it renews is
\* gone: the relay never serves both on the endpoint's behalf.
RenewedIsGone ==
    \A source \in Sources :
        \A ticket \in accepted[source] :
            ticket.reservation \in DOMAIN service.table =>
                service.table[ticket.reservation].replaces \notin DOMAIN service.table

\* The reservation plane keeps what the circuit plane builds on: a reservation
\* becomes usable once, never changes its ticket or owner, and never comes
\* back after it was withdrawn, replaced, expired or disconnected.
Pool == INSTANCE ReservationPool WITH
    pool  <- [r \in Usable |-> [ticket |-> service.table[r].ticket,
                                source |-> service.table[r].source]],
    spent <- usableOnce

ImplementsPool == Pool!PoolSpec
=============================================================================
