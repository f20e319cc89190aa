------------------------------- MODULE MCRelay -------------------------------
(* Small instances of RelayNode for TLC. *)
EXTENDS RelayNode

CONSTANTS r1, c1, k1, k2, k3, p1, p2

Ticket(active, total) ==
    [reservation |-> r1, expires |-> 2, maxActive |-> active,
     maxPerCircuit |-> total, maxTotal |-> total]

\* One circuit at a time and one byte in all; or three circuits and two bytes,
\* more circuits than a peer may have.
OneByte == {Ticket(1, 1)}
TwoBytes == {Ticket(3, 2)}

\* The peer p2 is the endpoint.
OneByteGrant == {[ticket |-> t, source |-> p2] : t \in OneByte}
TwoBytesGrant == {[ticket |-> t, source |-> p2] : t \in TwoBytes}

\* Two circuits with all their packets, or three opens with few of them.
FlowBounds ==
    {[time |-> 0, opens |-> 2, sequence |-> 7, generation |-> 1, snapshots |-> 0],
     [time |-> 0, opens |-> 3, sequence |-> 6, generation |-> 1, snapshots |-> 0]}

\* One circuit after another while time passes, or one through restarts.
LifeBounds ==
    {[time |-> 2, opens |-> 2, sequence |-> 8, generation |-> 1, snapshots |-> 0],
     [time |-> 1, opens |-> 1, sequence |-> 4, generation |-> 4, snapshots |-> 3]}

\* Circuit identifiers are drawn at random and only compared.
CircuitSymmetry == Permutations(Circuits)
=============================================================================
