----------------------------- MODULE MCAuthority -----------------------------
\* Small instances of AuthorityNode.
EXTENDS AuthorityNode

ContextSymmetry == Permutations(Contexts)

Point(work, anchor) == [work |-> work, anchor |-> anchor]

Root(sequence, envelope, point) ==
    [sequence |-> sequence, envelope |-> envelope, point |-> point]

Manifest(root, reorg, services) ==
    [authentic |-> TRUE, notBefore |-> 0, expires |-> MaxTime + 1,
     root |-> root, reorg |-> reorg, services |-> services]

Delegation(generation, id) ==
    [generation |-> generation, id |-> id, notBefore |-> 0, expires |-> MaxTime + 1]

A == Point(1, "a")
B == Point(2, "b")
C == Point(2, "c")
Reorg(p, q) == [previous |-> p, current |-> q]

\* A service is announced and withdrawn as the chain grows.
GrowingChain ==
    {Manifest(Root(1, "e1", A), NoVal, [s \in Services |-> Delegation(1, "d1")]),
     Manifest(Root(2, "e2", B), NoVal, [s \in Services |-> NoVal])}

\* Two forks of one chain, with and without evidence of the reorganization,
\* one service announced in several generations, another withdrawn, unusable
\* or expired on the way, and a manifest that is not authentic.
ForkingChain ==
    LET All(x) == [s \in Services |-> x]
        One(x, y) == [s \in Services |-> IF s = CHOOSE t \in Services : TRUE THEN x ELSE y]
    IN  {Manifest(Root(0, "e0", A), NoVal, All(Delegation(1, "d1"))),
         Manifest(Root(1, "e1", B), NoVal, One(NoVal, Delegation(2, "d2"))),
         Manifest(Root(1, "e1", B), NoVal, All(Unusable)),
         Manifest(Root(1, "f1", C), NoVal, All(Delegation(1, "d3"))),
         Manifest(Root(1, "f1", C), Reorg(B, C), One(Delegation(1, "d3"), NoVal)),
         Manifest(Root(0, "f0", A), Reorg(B, A), All(Delegation(1, "d1"))),
         Manifest(Root(2, "e2", B), NoVal,
                  One([Delegation(3, "d4") EXCEPT !.expires = 1], Delegation(1, "d1"))),
         [Manifest(Root(2, "e2", B), NoVal, All(NoVal)) EXCEPT !.authentic = FALSE]}
=============================================================================
