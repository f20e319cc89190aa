----------------------------- MODULE MCRequester -----------------------------
(* Small instances of RequesterNode for TLC. *)
EXTENDS RequesterNode, TLC

CONSTANTS r1, c1, k1, k2, ra, rb

\* Two tickets of one reservation that expire at different times.
TwoExpiries ==
    {[reservation |-> r1, expires |-> 3, maxActive |-> 2, maxPerCircuit |-> 3, maxTotal |-> 4],
     [reservation |-> r1, expires |-> 2, maxActive |-> 2, maxPerCircuit |-> 2, maxTotal |-> 3]}

\* Two opens and a changing clock; three generations of restarts.
FlowBounds == [time |-> 2, opens |-> 2, generation |-> 3, snapshots |-> 1]
RestartBounds == [time |-> 0, opens |-> 1, generation |-> 4, snapshots |-> 3]

FlowAndRestart == {FlowBounds, RestartBounds}
RestartsOnly == {[RestartBounds EXCEPT !.opens = 0]}

\* Relays and identifiers are only compared.
IdSymmetry ==
    Permutations(Relays) \union Permutations(Contexts) \union Permutations(Circuits)
=============================================================================
