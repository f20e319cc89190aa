---------------------------- MODULE MCRendezvous ----------------------------
(***************************************************************************)
(* A small instance of PersistentRendezvous.                               *)
(***************************************************************************)
EXTENDS PersistentRendezvous, TLC

CONSTANTS k1, e1, s1, p1, p2

V3(endpoint_sequence, delegation, sequence, hash, issued) ==
    [model |-> "v3", key |-> k1, endpoint |-> e1,
     endpoint_sequence |-> endpoint_sequence, delegation |-> delegation,
     sequence |-> sequence, hash |-> hash, generation |-> 1,
     issued |-> issued, expires |-> issued + 1, matches |-> TRUE, genuine |-> TRUE]

V1 == [V3(0, 0, 1, 0, 0) EXCEPT !.model = "v1"]

V2 == [V1 EXCEPT !.model = "v2"]

\* A route, a rival at the same sequence, a successor, and a route of the first
\* sequence again once the others' horizon has passed.
Route == V3(1, 1, 1, 2, 0)

Rival == V3(1, 1, 1, 1, 0)

Successor == V3(2, 2, 2, 3, 0)

Late == V3(1, 1, 1, 4, 1)

LimitsFor(attempts) ==
    [total_records |-> 2, records_per_key |-> 2, records_per_source |-> 2,
     attempts_total |-> attempts, attempts_per_source |-> attempts, verification_window |-> 9]

Authority(withdrawn) ==
    [key |-> k1, withdrawn |-> withdrawn, generation |-> 1, validated_at |-> 0,
     cache_until |-> 2, time |-> 0]

\* One instance that is opened three times, and two instances that take the
\* lease from each other.
TwoSettings ==
    {[instances |-> {p1}, fences |-> 3, limits |-> LimitsFor(2),
      records |-> {Route, Rival, Successor, Late, V1, V2}, legacy_v2 |-> FALSE,
      authorities |-> {Authority(FALSE), Authority(TRUE)}],
     [instances |-> {p1, p2}, fences |-> 2, limits |-> LimitsFor(1),
      records |-> {Route, Successor}, legacy_v2 |-> TRUE,
      authorities |-> {Authority(FALSE)}]}

InstanceSymmetry == Permutations(Instances)
=============================================================================
