------------------------------ MODULE MCRoutes ------------------------------
(***************************************************************************)
(* Small instances of RouteNode.                                           *)
(***************************************************************************)
EXTENDS RouteNode, TLC

CONSTANTS k1, e1, e2, e3, s1, s2

SourceSymmetry == Permutations(Sources)

\* A version-3 record; its hash tells records apart.
V3(endpoint, endpoint_sequence, delegation, sequence, hash, issued, expires, genuine) ==
    [model |-> "v3", key |-> k1, endpoint |-> endpoint,
     endpoint_sequence |-> endpoint_sequence, delegation |-> delegation,
     sequence |-> sequence, hash |-> hash, generation |-> 1,
     issued |-> issued, expires |-> expires, matches |-> TRUE, genuine |-> genuine]

Legacy(model, endpoint, sequence, issued, expires, genuine) ==
    [model |-> model, key |-> k1, endpoint |-> endpoint,
     endpoint_sequence |-> 0, delegation |-> 0,
     sequence |-> sequence, hash |-> 0, generation |-> 0,
     issued |-> issued, expires |-> expires, matches |-> TRUE, genuine |-> genuine]

\* Two sequences of each counter, with an equivocation at each; the third
\* endpoint is one more than the ledger has room for.
Named ==
    {V3(e1, 1, 2, 1, 4, 0, 1, TRUE), V3(e1, 1, 1, 1, 3, 0, 1, TRUE),
     V3(e1, 1, 2, 2, 6, 1, 2, TRUE), V3(e1, 2, 5, 1, 5, 1, 2, TRUE),
     V3(e1, 3, 6, 3, 9, 0, 1, FALSE), V3(e2, 1, 1, 1, 8, 1, 2, TRUE),
     V3(e3, 1, 1, 1, 7, 0, 1, TRUE)}

Unnamed ==
    {Legacy("v1", e1, 1, 0, 1, TRUE), Legacy("v1", e1, 2, 1, 2, TRUE),
     [Legacy("v1", e1, 3, 0, 1, TRUE) EXCEPT !.matches = FALSE],
     Legacy("v1", e2, 1, 0, 1, TRUE), Legacy("v2", e1, 1, 1, 2, TRUE),
     Legacy("v2", e1, 2, 1, 2, FALSE), V3(e1, 1, 2, 1, 4, 0, 1, TRUE)}

Service(withdrawn, generation, cache_until, time) ==
    [key |-> k1, withdrawn |-> withdrawn, generation |-> generation,
     validated_at |-> 0, cache_until |-> cache_until, time |-> time]

NamedLimits ==
    [total_records |-> 2, records_per_key |-> 2, records_per_source |-> 1,
     attempts_total |-> 4, attempts_per_source |-> 4, verification_window |-> 9]

MixedLimits ==
    [total_records |-> 2, records_per_key |-> 1, records_per_source |-> 2,
     attempts_total |-> 3, attempts_per_source |-> 2, verification_window |-> 1]

TwoWorkloads ==
    {[records |-> Named, limits |-> NamedLimits, sources |-> {s1, s2},
      services |-> {Service(FALSE, 1, 2, 1), Service(FALSE, 2, 2, 0), Service(TRUE, 1, 2, 1)}],
     [records |-> Unnamed, limits |-> MixedLimits, sources |-> {s1, s2}, services |-> {}]}
=============================================================================
