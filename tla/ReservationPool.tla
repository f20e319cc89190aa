--------------------------- MODULE ReservationPool ---------------------------
(***************************************************************************)
(* What the reservation plane promises the circuit plane: a reservation    *)
(* becomes usable once, with one ticket and one owner, keeps both while it *)
(* is usable, and never becomes usable again.                              *)
(***************************************************************************)
EXTENDS HnsrWire

VARIABLES
    pool,   \* usable reservations: reservation -> [ticket, source]
    spent   \* every reservation that was ever usable

poolVars == <<pool, spent>>

PoolInit == pool = EmptyMap /\ spent = {}

Grant(grant) ==
    LET reservation == grant.ticket.reservation
    IN  /\ reservation \notin spent
        /\ pool' = Put(pool, reservation, grant)
        /\ spent' = spent \union {reservation}

Remove(reservations) ==
    /\ pool' = Drop(pool, reservations)
    /\ UNCHANGED spent

\* A confirmed renewal takes its predecessor's place in one step.
Replace(grant, old) ==
    LET reservation == grant.ticket.reservation
    IN  /\ reservation \notin spent
        /\ pool' = Put(Drop(pool, {old}), reservation, grant)
        /\ spent' = spent \union {reservation}

PoolNext ==
    \/ \E reservations \in SUBSET DOMAIN pool : Remove(reservations)
    \/ \E grant \in Range(pool') : Grant(grant)
    \/ \E grant \in Range(pool'), old \in DOMAIN pool : Replace(grant, old)

PoolSpec == PoolInit /\ [][PoolNext]_poolVars
=============================================================================
