-------------------------- MODULE RelayReservations --------------------------
(***************************************************************************)
(* RelayService of crates/hns-hnsr-protocol/src/runtime.rs: the relay's    *)
(* table of reservations and the four packets that change it, and the      *)
(* endpoint's side of the exchange (EndpointReservation).                  *)
(*                                                                         *)
(* A ticket is [reservation, key, issued, expires, maxActive,              *)
(* maxPerCircuit, maxTotal]; the relay's signature on it is valid.  The    *)
(* endpoint's signature is "none", "valid" or "wrong".  A result is the    *)
(* new table and the reply; an error keeps what it changed and replies     *)
(* nothing.                                                                *)
(***************************************************************************)
EXTENDS HnsrWire

CONSTANT NoReservation

\* RelayLimits is [reservations, perSource, bytesPerCircuit].
ValidLimits(limits) ==
    /\ limits.reservations \in Nat \ {0}
    /\ limits.perSource \in 1..limits.reservations
    /\ limits.bytesPerCircuit \in Nat \ {0}

NewService(limits) == [limits |-> limits, table |-> EmptyMap, counts |-> EmptyMap]

ServiceResult(s, out) == [self |-> s, out |-> out]

Count(s, source) == IF source \in DOMAIN s.counts THEN s.counts[source] ELSE 0

\* Mutant: the count of the source is kept.
RemoveUncounted(s, reservation) == [s EXCEPT !.table = Drop(@, {reservation})]

RemoveOne(s, reservation) ==
    IF reservation \notin DOMAIN s.table THEN s
    ELSE LET source == s.table[reservation].source
         IN  [s EXCEPT
                !.table = Drop(@, {reservation}),
                !.counts = IF Count(s, source) = 1 THEN Drop(@, {source})
                           ELSE Put(@, source, Count(s, source) - 1)]

RemoveEach(s, reservations) ==
    FoldSet(LAMBDA reservation, rest : RemoveOne(rest, reservation), s, reservations)

\* disconnect returns the reservations it removed; prune does not.
DisconnectSource(s, source) ==
    LET gone == {r \in DOMAIN s.table : s.table[r].source = source}
    IN  ServiceResult(RemoveEach(s, gone), gone)

Prune(s, now) == RemoveEach(s, {r \in DOMAIN s.table : s.table[r].ticket.expires <= now})

\* verify_for_profile, once both signatures are there.
TicketVerifies(entry, now) ==
    /\ entry.signature = "valid"
    /\ entry.ticket.issued <= now /\ now < entry.ticket.expires

\* Mutant: a signature that is there is taken for a valid one.
AdmitsUnverified(s, reservation, ticket, now) ==
    When(/\ reservation \in DOMAIN s.table
         /\ s.table[reservation].signature # "none"
         /\ s.table[reservation].ticket.expires > now
         /\ s.table[reservation].ticket = ticket,
         [ticket |-> ticket, source |-> s.table[reservation].source])

AdmitCircuit(s, reservation, ticket, now) ==
    When(/\ reservation \in DOMAIN s.table
         /\ s.table[reservation].signature # "none"
         /\ s.table[reservation].ticket.expires > now
         /\ s.table[reservation].ticket = ticket
         /\ TicketVerifies(s.table[reservation], now),
         [ticket |-> ticket, source |-> s.table[reservation].source])

-----------------------------------------------------------------------------
\* Packets.  A request is [key, nonce, lifetime, circuits, bytes].

Reserve(context, request) == [op |-> "Reserve", context |-> context, request |-> request]
Renew(context, request, previous) ==
    [op |-> "Renew", context |-> context, request |-> request, previous |-> previous]
Offer(context, ticket) == [op |-> "Offer", context |-> context, ticket |-> ticket]
Confirm(context, reservation, signature) ==
    [op |-> "Confirm", context |-> context, reservation |-> reservation, signature |-> signature]
Confirmed(context, ticket) == [op |-> "Confirmed", context |-> context, ticket |-> ticket]
Withdraw(context, ticket, signature) ==
    [op |-> "Withdraw", context |-> context, ticket |-> ticket, signature |-> signature]

HasRoom(s, source) ==
    /\ Cardinality(DOMAIN s.table) < s.limits.reservations
    /\ Count(s, source) < s.limits.perSource

Replayed(s, request, now) ==
    \E r \in DOMAIN s.table : /\ s.table[r].ticket.expires > now
                              /\ s.table[r].ticket.key = request.key
                              /\ s.table[r].nonce = request.nonce

\* `fresh` is the random reservation identifier.
Issue(s, request, context, source, now, replaces, fresh) ==
    LET pruned == Prune(s, now)
        ticket == [reservation |-> fresh, key |-> request.key,
                   issued |-> now, expires |-> now + request.lifetime,
                   maxActive |-> request.circuits,
                   maxPerCircuit |-> Smaller(request.bytes, s.limits.bytesPerCircuit),
                   maxTotal |-> request.bytes]
        entry  == [source |-> source, context |-> context, nonce |-> request.nonce,
                   ticket |-> ticket, signature |-> "none", replaces |-> replaces]
    IN  IF ~HasRoom(pruned, source) \/ Replayed(pruned, request, now)
        THEN ServiceResult(pruned, {})
        ELSE ServiceResult([pruned EXCEPT
                                !.table = Put(@, fresh, entry),
                                !.counts = Put(@, source, Count(pruned, source) + 1)],
                           {Offer(context, ticket)})

HandleReserve(s, p, source, now, fresh) ==
    {Issue(s, p.request, p.context, source, now, NoReservation, fresh)}

HandleRenew(s, p, source, now, fresh) ==
    LET previous == s.table[p.previous]
    IN  IF /\ p.previous \in DOMAIN s.table
           /\ previous.source = source
           /\ previous.signature # "none"
           /\ previous.ticket.expires > now
           /\ p.request.key = previous.ticket.key
        THEN {Issue(s, p.request, p.context, source, now, p.previous, fresh)}
        ELSE {}

\* Mutant: the reply is sent whether or not the ticket verifies.
ConfirmUnverified(s, p, source, now) ==
    LET entry  == s.table[p.reservation]
        signed == [entry EXCEPT !.signature = p.signature]
        stored == [s EXCEPT !.table[p.reservation] = signed]
    IN  When(/\ p.reservation \in DOMAIN s.table
             /\ entry.source = source
             /\ entry.context = p.context
             /\ entry.ticket.expires > now
             /\ entry.signature = "none",
             ServiceResult(RemoveOne(stored, entry.replaces),
                           {Confirmed(p.context, entry.ticket)}))

\* Mutant: a reservation can be confirmed again.
ConfirmAgain(s, p, source, now) ==
    LET entry  == s.table[p.reservation]
        signed == [entry EXCEPT !.signature = p.signature]
        stored == [s EXCEPT !.table[p.reservation] = signed]
    IN  When(/\ p.reservation \in DOMAIN s.table
             /\ entry.source = source
             /\ entry.context = p.context
             /\ entry.ticket.expires > now,
             IF TicketVerifies(signed, now)
             THEN ServiceResult(RemoveOne(stored, entry.replaces),
                                {Confirmed(p.context, entry.ticket)})
             ELSE ServiceResult(stored, {}))

\* Mutant: the renewed reservation stays.
ConfirmKeepsOld(s, p, source, now) ==
    LET entry  == s.table[p.reservation]
        signed == [entry EXCEPT !.signature = p.signature]
        stored == [s EXCEPT !.table[p.reservation] = signed]
    IN  When(/\ p.reservation \in DOMAIN s.table
             /\ entry.source = source
             /\ entry.context = p.context
             /\ entry.ticket.expires > now
             /\ entry.signature = "none",
             IF TicketVerifies(signed, now)
             THEN ServiceResult(stored,
                                {Confirmed(p.context, entry.ticket)})
             ELSE ServiceResult(stored, {}))

\* The signature is stored before the ticket is verified: a confirmation that
\* fails leaves it behind, keeps the predecessor and replies nothing.
HandleConfirm(s, p, source, now) ==
    LET entry  == s.table[p.reservation]
        signed == [entry EXCEPT !.signature = p.signature]
        stored == [s EXCEPT !.table[p.reservation] = signed]
    IN  When(/\ p.reservation \in DOMAIN s.table
             /\ entry.source = source
             /\ entry.context = p.context
             /\ entry.ticket.expires > now
             /\ entry.signature = "none",
             IF TicketVerifies(signed, now)
             THEN ServiceResult(RemoveOne(stored, entry.replaces),
                                {Confirmed(p.context, entry.ticket)})
             ELSE ServiceResult(stored, {}))

\* The withdrawal names the signed ticket by a hash that covers the endpoint's
\* signature; any signature will do, also one whose confirmation failed.
HandleWithdraw(s, p, source) ==
    LET reservation == p.ticket.reservation
    IN  When(/\ reservation \in DOMAIN s.table
             /\ s.table[reservation].source = source
             /\ s.table[reservation].context = p.context
             /\ s.table[reservation].signature # "none"
             /\ s.table[reservation].signature = p.signature
             /\ s.table[reservation].ticket = p.ticket,
             ServiceResult(RemoveOne(s, reservation), {}))

\* RelayService::handle, reached through HnsrService::handle.
ServiceHandles(s, p, source, now, fresh) ==
    CASE p.op = "Reserve" -> HandleReserve(s, p, source, now, fresh)
      [] p.op = "Renew" -> HandleRenew(s, p, source, now, fresh)
      [] p.op = "Confirm" -> HandleConfirm(s, p, source, now)
      [] p.op = "Withdraw" -> HandleWithdraw(s, p, source)
      [] OTHER -> {}

-----------------------------------------------------------------------------
\* EndpointReservation.

\* confirm_offer: the endpoint signs an offer for its key that is in force.
ConfirmOffer(key, p, now) ==
    When(/\ p.op = "Offer"
         /\ p.ticket.key = key
         /\ p.ticket.issued <= now /\ now < p.ticket.expires,
         [packet |-> Confirm(p.context, p.ticket.reservation, "valid"), ticket |-> p.ticket])

\* accept_confirmation: the relay's reply names the ticket the endpoint signed.
AcceptConfirmation(p, ticket) ==
    When(p.op = "Confirmed" /\ p.ticket = ticket, ticket)
=============================================================================
