---------------------------- MODULE MCReservations ----------------------------
(* Small instances of ReservationNode for TLC. *)
EXTENDS ReservationNode, TLC

CONSTANTS i1, i2, i3, s1, s2, x1, n1, n2

RequestsOf(source, nonces) ==
    [key : {source}, nonce : nonces, lifetime : {1}, circuits : {1}, bytes : {2}]

Limits(perSource) == [reservations |-> 2, perSource |-> perSource, bytesPerCircuit |-> 1]

\* One endpoint that renews and withdraws, and two endpoints that compete for
\* the relay's two reservations: for all of them, or for one each.
SmallSettings ==
    {[limits |-> Limits(2), requests |-> RequestsOf(s1, {n1, n2}), packets |-> 7]}
        \union
    [limits : {Limits(1), Limits(2)},
     requests : {RequestsOf(s1, {n1, n2}) \union RequestsOf(s2, {n1})}, packets : {5}]

\* Random identifiers are only compared.
IdSymmetry == Permutations(ReservationIds)
===============================================================================
