------------------------- MODULE RouteLedgerProofs --------------------------
(***************************************************************************)
(* The replay ledger is a join: what a counter of a ledger entry holds is  *)
(* a function of the set of observations made since the entry was created, *)
(* for every number of observations and in every order.                    *)
(***************************************************************************)
EXTENDS RouteLedger, TLAPS

\* Observations are pairs of a sequence and an identifier.
Observations == Nat \X Nat

\* A counter that is created by an observation is the join of that observation
\* (the new_scope arm of next_named_v3_ledger_entry).
LEMMA NewCounterIsJoin ==
    ASSUME NEW sequence \in Nat, NEW id \in Nat
    PROVE  /\ NewCounter(sequence, id) \in Counter
           /\ IsJoin(NewCounter(sequence, id), {<<sequence, id>>})
  BY DEF NewCounter, Counter, IsJoin

\* What next_named_v3_ledger_entry leaves in a counter, by how the observation
\* compares with it.
LEMMA NextCounterCases ==
    ASSUME NEW counter \in Counter, NEW sequence \in Nat, NEW id \in Nat
    PROVE  /\ NextCounter(counter, sequence, id) \in Counter
           /\ sequence > counter.high =>
                NextCounter(counter, sequence, id) = NewCounter(sequence, id)
           /\ sequence < counter.high =>
                NextCounter(counter, sequence, id) = counter
           /\ sequence = counter.high /\ id = counter.id =>
                NextCounter(counter, sequence, id) = counter
           /\ sequence = counter.high /\ id < counter.id =>
                NextCounter(counter, sequence, id)
                    = [high |-> sequence, id |-> id, conflicted |-> TRUE]
           /\ sequence = counter.high /\ id > counter.id =>
                NextCounter(counter, sequence, id)
                    = [high |-> sequence, id |-> counter.id, conflicted |-> TRUE]
<1> DEFINE disposition == CounterDisposition(counter, sequence, id)
<1>0. counter.high \in Nat /\ counter.id \in Nat /\ counter.conflicted \in BOOLEAN
  BY Zenon DEF Counter
<1>1. CASE sequence > counter.high
  <2>1. disposition = "advance"
    BY <1>0, <1>1 DEF CounterDisposition
  <2> QED BY <1>0, <1>1, <2>1 DEF NextCounter, NewCounter, Counter
<1>2. CASE sequence < counter.high
  <2>1. disposition = "stale"
    BY <1>0, <1>2 DEF CounterDisposition
  <2> QED BY <1>0, <1>2, <2>1 DEF NextCounter
<1>3. CASE sequence = counter.high /\ id < counter.id
  <2>1. disposition = "conflict"
    BY <1>0, <1>3 DEF CounterDisposition
  <2>2. NextCounter(counter, sequence, id) = [high |-> sequence, id |-> id, conflicted |-> TRUE]
    BY <1>3, <2>1, Zenon DEF NextCounter
  <2> QED BY <1>0, <1>3, <2>2 DEF Counter
<1>4. CASE sequence = counter.high /\ id = counter.id
  <2>1. disposition \in {"already_conflicted", "idempotent"}
    BY <1>0, <1>4 DEF CounterDisposition
  <2> QED BY <1>0, <1>4, <2>1 DEF NextCounter
<1>5. CASE sequence = counter.high /\ id > counter.id
  <2>1. CASE counter.conflicted
    <3>1. disposition = "already_conflicted"
      BY <1>0, <1>5, <2>1 DEF CounterDisposition
    <3>2. NextCounter(counter, sequence, id) = counter
      BY <3>1, Zenon DEF NextCounter
    <3>3. counter.conflicted = TRUE
      BY <1>0, <2>1, Zenon
    <3>4. counter = [high |-> counter.high, id |-> counter.id, conflicted |-> TRUE]
      BY <3>3, Zenon DEF Counter
    <3> QED BY <1>0, <1>5, <3>2, <3>4
  <2>2. CASE ~counter.conflicted
    <3>1. disposition = "conflict"
      BY <1>0, <1>5, <2>2 DEF CounterDisposition
    <3>2. ~(id < counter.id)
      BY <1>0, <1>5
    <3>3. NextCounter(counter, sequence, id)
            = [high |-> sequence, id |-> counter.id, conflicted |-> TRUE]
      BY <1>5, <3>1, <3>2, Zenon DEF NextCounter
    <3> QED BY <1>0, <1>5, <3>3 DEF Counter
  <2> QED BY <1>0, <2>1, <2>2
<1> QED BY <1>0, <1>1, <1>2, <1>3, <1>4, <1>5

\* One step of the ledger: a counter that is the join of what was observed
\* becomes the join of that and the new observation, whatever its disposition
\* (the endpoint and the route arm of next_named_v3_ledger_entry alike).
THEOREM CounterStepIsJoin ==
    ASSUME NEW counter \in Counter, NEW observed \in SUBSET Observations,
           IsJoin(counter, observed),
           NEW sequence \in Nat, NEW id \in Nat
    PROVE  /\ NextCounter(counter, sequence, id) \in Counter
           /\ IsJoin(NextCounter(counter, sequence, id), observed \cup {<<sequence, id>>})
<1> DEFINE next == NextCounter(counter, sequence, id)
           all  == observed \cup {<<sequence, id>>}
<1>0. counter.high \in Nat /\ counter.id \in Nat /\ counter.conflicted \in BOOLEAN
  BY Zenon DEF Counter
<1>1. \A o \in observed : o[1] \in Nat /\ o[2] \in Nat
  BY Zenon DEF Observations
<1>2. next \in Counter
  BY NextCounterCases, Zenon
<1>8. /\ <<sequence, id>> \in all
      /\ <<sequence, id>>[1] = sequence /\ <<sequence, id>>[2] = id
      /\ \A o \in all : o \in observed \/ o = <<sequence, id>>
  OBVIOUS
<1>3. CASE sequence > counter.high
  <2>1. next = NewCounter(sequence, id)
    BY <1>3, NextCounterCases
  <2>2. \A o \in observed : o[1] < sequence
    BY <1>0, <1>1, <1>3 DEF IsJoin
  <2>3. next.high = sequence /\ next.id = id /\ next.conflicted = FALSE
    BY <2>1 DEF NewCounter
  <2>4. \E o \in all : o[1] = next.high /\ o[2] = next.id
    BY <1>8, <2>3, Zenon
  <2>5. \A o \in all : o[1] <= next.high /\ (o[1] = next.high => next.id = o[2])
    BY <1>1, <1>8, <2>2, <2>3
  <2> QED BY <1>1, <1>2, <2>3, <2>4, <2>5 DEF IsJoin
<1>4. CASE sequence < counter.high
  <2>1. next = counter
    BY <1>4, NextCounterCases, Zenon
  <2> QED BY <1>0, <1>1, <1>2, <1>4, <2>1 DEF IsJoin
<1>5. CASE sequence = counter.high /\ id = counter.id
  <2>1. next = counter
    BY <1>5, NextCounterCases, Zenon
  <2> QED BY <1>0, <1>1, <1>2, <1>5, <2>1 DEF IsJoin
<1>6. CASE sequence = counter.high /\ id < counter.id
  <2>1. next = [high |-> sequence, id |-> id, conflicted |-> TRUE]
    BY <1>6, NextCounterCases, Zenon
  <2>2. PICK o \in observed : o[1] = counter.high /\ o[2] = counter.id
    BY Zenon DEF IsJoin
  <2>3. \A p \in observed : p[1] = sequence => id < p[2]
    BY <1>0, <1>1, <1>6 DEF IsJoin
  <2>4. o \in all /\ o[1] = sequence /\ o[2] # id
    BY <1>0, <1>6, <2>2
  <2>5. next.high = sequence /\ next.id = id /\ next.conflicted = TRUE
    BY <2>1
  <2>6. \E p \in all : p[1] = next.high /\ p[2] = next.id
    BY <1>8, <2>5, Zenon
  <2>7. \A p \in all : p[1] <= next.high /\ (p[1] = next.high => next.id <= p[2])
    BY <1>0, <1>1, <1>6, <1>8, <2>3, <2>5 DEF IsJoin
  <2>8. \E p \in all : p[1] = next.high /\ p[2] # next.id
    BY <2>4, <2>5, Zenon
  <2> QED BY <1>2, <2>5, <2>6, <2>7, <2>8 DEF IsJoin
<1>7. CASE sequence = counter.high /\ id > counter.id
  <2>1. next = [high |-> sequence, id |-> counter.id, conflicted |-> TRUE]
    BY <1>7, NextCounterCases, Zenon
  <2>2. next.high = sequence /\ next.id = counter.id /\ next.conflicted = TRUE
    BY <2>1
  <2>3. \E o \in all : o[1] = next.high /\ o[2] = next.id
    BY <1>7, <2>2, Zenon DEF IsJoin
  <2>4. \A o \in all : o[1] <= next.high /\ (o[1] = next.high => next.id <= o[2])
    BY <1>0, <1>1, <1>7, <1>8, <2>2 DEF IsJoin
  <2>5. \E o \in all : o[1] = next.high /\ o[2] # next.id
    <3>1. id # counter.id
      BY <1>0, <1>7
    <3>2. <<sequence, id>> \in all /\ <<sequence, id>>[1] = sequence /\ <<sequence, id>>[2] = id
      BY Zenon
    <3> QED BY <1>7, <2>2, <3>1, <3>2, Zenon
  <2> QED BY <1>2, <2>2, <2>3, <2>4, <2>5 DEF IsJoin
<1> QED BY <1>0, <1>3, <1>4, <1>5, <1>6, <1>7

\* A join is determined by the set it joins.
LEMMA JoinIsDetermined ==
    ASSUME NEW one \in Counter, NEW other \in Counter,
           NEW observed \in SUBSET Observations,
           IsJoin(one, observed), IsJoin(other, observed)
    PROVE  one = other
<1>0. \A o \in observed : o[1] \in Nat /\ o[2] \in Nat
  BY DEF Observations
<1>1. one.high = other.high
  BY <1>0 DEF IsJoin, Counter
<1>2. one.id = other.id
  BY <1>0, <1>1 DEF IsJoin, Counter
<1>3. one.conflicted = other.conflicted
  BY <1>1, <1>2 DEF IsJoin, Counter
<1> QED BY <1>1, <1>2, <1>3 DEF Counter

\* Every counter is the join of some observations: its own, and a second one at
\* the same sequence when it is conflicted.
LEMMA CounterJoinsSomething ==
    ASSUME NEW counter \in Counter
    PROVE  \E observed \in SUBSET Observations : IsJoin(counter, observed)
<1>0. counter.high \in Nat /\ counter.id \in Nat /\ counter.conflicted \in BOOLEAN
  BY DEF Counter
<1> DEFINE own   == <<counter.high, counter.id>>
           later == <<counter.high, counter.id + 1>>
<1>1. own \in Observations /\ later \in Observations
  BY <1>0 DEF Observations
<1>2. /\ own[1] = counter.high /\ own[2] = counter.id
      /\ later[1] = counter.high /\ later[2] = counter.id + 1
  OBVIOUS
<1> HIDE DEF own, later
<1>3. CASE counter.conflicted
  <2>1. IsJoin(counter, {own, later})
    BY <1>0, <1>2, <1>3 DEF IsJoin
  <2> QED BY <1>1, <2>1
<1>4. CASE ~counter.conflicted
  <2>1. IsJoin(counter, {own})
    BY <1>0, <1>2, <1>4 DEF IsJoin
  <2> QED BY <1>1, <2>1
<1> QED BY <1>0, <1>3, <1>4

\* Records may arrive in any order and any number of times: from every counter
\* next_named_v3_ledger_entry leaves the same counter for two observations in
\* either order, and repeating an observation changes nothing.
THEOREM ObservationsCommute ==
    ASSUME NEW counter \in Counter, NEW s1 \in Nat, NEW i1 \in Nat,
           NEW s2 \in Nat, NEW i2 \in Nat
    PROVE  /\ NextCounter(NextCounter(counter, s1, i1), s2, i2)
                = NextCounter(NextCounter(counter, s2, i2), s1, i1)
           /\ NextCounter(NextCounter(counter, s1, i1), s1, i1)
                = NextCounter(counter, s1, i1)
<1> DEFINE first  == NextCounter(counter, s1, i1)
           second == NextCounter(counter, s2, i2)
           one    == NextCounter(first, s2, i2)
           other  == NextCounter(second, s1, i1)
           again  == NextCounter(first, s1, i1)
<1>1. PICK observed \in SUBSET Observations : IsJoin(counter, observed)
  BY CounterJoinsSomething
<1> DEFINE with1 == observed \cup {<<s1, i1>>}
           with2 == observed \cup {<<s2, i2>>}
<1>2. with1 \in SUBSET Observations /\ with2 \in SUBSET Observations
  BY DEF Observations
<1>3. first \in Counter /\ IsJoin(first, with1)
  BY <1>1, CounterStepIsJoin
<1>4. second \in Counter /\ IsJoin(second, with2)
  BY <1>1, CounterStepIsJoin
<1> HIDE DEF first, second, with1, with2
<1>5. one \in Counter /\ IsJoin(one, with1 \cup {<<s2, i2>>})
  BY <1>2, <1>3, CounterStepIsJoin
<1>6. other \in Counter /\ IsJoin(other, with2 \cup {<<s1, i1>>})
  BY <1>2, <1>4, CounterStepIsJoin
<1>7. again \in Counter /\ IsJoin(again, with1 \cup {<<s1, i1>>})
  BY <1>2, <1>3, CounterStepIsJoin
<1> HIDE DEF one, other, again
<1>8. with1 \cup {<<s2, i2>>} = with2 \cup {<<s1, i1>>} /\ with1 \cup {<<s1, i1>>} = with1
  BY DEF with1, with2
<1>9. with1 \cup {<<s2, i2>>} \in SUBSET Observations
  BY <1>2 DEF Observations
<1>10. one = other
  BY <1>5, <1>6, <1>8, <1>9, JoinIsDetermined
<1>11. again = first
  BY <1>2, <1>3, <1>7, <1>8, JoinIsDetermined
<1> QED BY <1>10, <1>11 DEF one, other, again, first, second

\* A counter never goes back: its sequence does not fall, a conflict at a
\* sequence is cleared only by a greater sequence, and a record that becomes
\* live stands exactly at both the sequence and the identifier.
THEOREM CounterOnlyAdvances ==
    ASSUME NEW counter \in Counter, NEW sequence \in Nat, NEW id \in Nat
    PROVE  LET next == NextCounter(counter, sequence, id) IN
           /\ next.high >= counter.high
           /\ counter.conflicted /\ ~next.conflicted => next.high > counter.high
           /\ MatchesFinal(CounterDisposition(counter, sequence, id))
                <=> next = NewCounter(sequence, id)
<1> DEFINE next == NextCounter(counter, sequence, id)
<1>0. counter.high \in Nat /\ counter.id \in Nat /\ counter.conflicted \in BOOLEAN
  BY Zenon DEF Counter
<1>a. /\ sequence > counter.high => next = NewCounter(sequence, id)
      /\ sequence < counter.high => next = counter
      /\ sequence = counter.high /\ id = counter.id => next = counter
      /\ sequence = counter.high /\ id < counter.id =>
           next = [high |-> sequence, id |-> id, conflicted |-> TRUE]
      /\ sequence = counter.high /\ id > counter.id =>
           next = [high |-> sequence, id |-> counter.id, conflicted |-> TRUE]
  BY NextCounterCases, ZenonT(40)
<1> HIDE DEF next
<1> USE <1>0
<1>1. /\ sequence > counter.high => next.high = sequence /\ next.conflicted = FALSE
      /\ sequence < counter.high => next = counter
      /\ sequence = counter.high /\ id = counter.id => next = counter
      /\ sequence = counter.high /\ id # counter.id =>
           next.high = sequence /\ next.conflicted = TRUE
  <2>1. id # counter.id => id < counter.id \/ id > counter.id
    OBVIOUS
  <2>2. sequence > counter.high => next.high = sequence /\ next.conflicted = FALSE
    BY <1>a DEF NewCounter
  <2>3. sequence = counter.high /\ id < counter.id =>
          next.high = sequence /\ next.conflicted = TRUE
    BY <1>a
  <2>4. sequence = counter.high /\ id > counter.id =>
          next.high = sequence /\ next.conflicted = TRUE
    BY <1>a
  <2> QED BY <1>a, <2>1, <2>2, <2>3, <2>4, Zenon
<1>2. next.high >= counter.high
  BY <1>1
<1>4. counter.conflicted /\ ~next.conflicted => next.high > counter.high
  BY <1>1
<1>3. MatchesFinal(CounterDisposition(counter, sequence, id)) <=> next = NewCounter(sequence, id)
  <2>1. CASE sequence > counter.high
    <3>1. CounterDisposition(counter, sequence, id) = "advance"
      BY <1>0, <2>1 DEF CounterDisposition
    <3> QED BY <1>a, <2>1, <3>1, Zenon DEF MatchesFinal
  <2>2. CASE sequence < counter.high
    <3>1. CounterDisposition(counter, sequence, id) = "stale"
      BY <1>0, <2>2 DEF CounterDisposition
    <3>2. next.high # NewCounter(sequence, id).high
      <4>1. next.high = counter.high /\ NewCounter(sequence, id).high = sequence
        BY <1>a, <2>2, Zenon DEF NewCounter
      <4> QED BY <2>2, <4>1
    <3> QED BY <3>1, <3>2 DEF MatchesFinal
  <2>3. CASE sequence = counter.high /\ id # counter.id
    <3>1. CounterDisposition(counter, sequence, id) \in {"conflict", "already_conflicted"}
      BY <2>3 DEF CounterDisposition
    <3>2. next.conflicted # NewCounter(sequence, id).conflicted
      BY <1>1, <2>3, Zenon DEF NewCounter
    <3> QED BY <3>1, <3>2 DEF MatchesFinal
  <2>4. CASE sequence = counter.high /\ id = counter.id /\ counter.conflicted
    <3>1. CounterDisposition(counter, sequence, id) = "already_conflicted"
      BY <2>4 DEF CounterDisposition
    <3>2. next.conflicted # NewCounter(sequence, id).conflicted
      BY <1>1, <2>4, Zenon DEF NewCounter
    <3> QED BY <3>1, <3>2 DEF MatchesFinal
  <2>5. CASE sequence = counter.high /\ id = counter.id /\ ~counter.conflicted
    <3>1. CounterDisposition(counter, sequence, id) = "idempotent"
      BY <2>5 DEF CounterDisposition
    <3>2. counter.conflicted = FALSE
      BY <2>5, Zenon
    <3>3. counter = NewCounter(sequence, id)
      BY <2>5, <3>2, Zenon DEF NewCounter, Counter
    <3> QED BY <1>1, <2>5, <3>1, <3>3 DEF MatchesFinal
  <2> QED BY <1>0, <2>1, <2>2, <2>3, <2>4, <2>5
<1> QED BY <1>2, <1>3, <1>4, Zenon DEF next
=============================================================================
